---------------------------- MODULE Spec2Model ----------------------------
(***************************************************************************)
(* Review-and-publish pipeline of the Moltbook Observatory:                *)
(*   scripts/openrouter_client.py   call_kimi (the generation client)      *)
(*   agents/agent_council.py        AgentCouncil (reviewers, aggregation,  *)
(*                                  the deliberation store)                *)
(*   agents/publication_coordinator.py  PublicationCoordinator (the        *)
(*                                  publication state machine)             *)
(*                                                                         *)
(*   agents/guardian.py             check_content (moderation of posts)    *)
(*                                                                         *)
(* Specifications sharing the definitions below:                           *)
(*   SpecClient      one _get_agent_opinion call, call_kimi's retry loop   *)
(*                   run attempt by attempt;                               *)
(*   SpecDeliberate  one deliberate_with_id call, over every panel answer; *)
(*   SpecConsensus   the decision and the summary of one panel's votes;    *)
(*   SpecReview      one smart_review call;                                *)
(*   SpecStore, SpecFeed, SpecWriters  the stores' transactions and the    *)
(*                   website feed's file, step by step;                    *)
(*   SpecGuardian    check_content, called directly or by a Guardian;      *)
(*   Spec            the coordinator driven by concurrent workers that     *)
(*                   share the sqlite database; SpecQueue, the same with   *)
(*                   the queue runner scheduled fairly.                    *)
(***************************************************************************)
EXTENDS Integers, Sequences, FiniteSets, TLC

VARIABLES
    now,                    \* CURRENT_TIMESTAMP of the database, in whole seconds
    publications,           \* table publications, row i has id i
    publication_log,        \* table publication_log: each publication's entries, in order
    council_deliberations,  \* table council_deliberations, row i has id i
    agent_votes,            \* table agent_votes, in insertion order
    discoveries,            \* website feed discoveries.json: the file's content
    wk,                     \* the coordinator's workers: position and locals
    calls,                  \* coordinator calls issued so far
    dl,                     \* the deliberate_with_id call of SpecDeliberate
    cl,                     \* the _get_agent_opinion call of SpecClient
    sr,                     \* the smart_review call of SpecReview
    rn,                     \* the process of SpecStore: run_deliberation, statement by statement
    ws,                     \* the process of SpecFeed: _publish_to_website and its temp file
    gc,                     \* the _generate_consensus call of SpecConsensus
    fw,                     \* the processes of SpecWriters: concurrent _publish_to_website calls
    gd                      \* the check_content call of SpecGuardian

vars == <<now, publications, publication_log, council_deliberations, agent_votes,
          discoveries, wk, calls, dl, cl, sr, rn, ws, gc, fw, gd>>

\* the database and the feed
store == <<now, publications, publication_log, council_deliberations, agent_votes,
           discoveries>>

\* the calls of the other specifications
rest == <<gc, fw, gd>>

side == <<sr, rn, ws, rest>>

----------------------------------------------------------------------------
(* Bounds of the model.                                                    *)

\* publications submitted in one behaviour
MaxPubs == 2
\* seconds the database clock advances
MaxTime == 1
\* calls of run_deliberation, publish and process_queue in one behaviour
MaxCalls == 2

\* processes that share the database file: one runs process_queue (the
\* "process" command), one calls run_deliberation and publish directly
QueueRunners == {"w1"}
DirectCallers == {"w2"}
Workers == QueueRunners \cup DirectCallers

----------------------------------------------------------------------------
(* agent_council.py: the panel.                                            *)

\* AgentRole, in the enum's iteration order
Panel == <<"project_manager", "security_guard", "sociologist", "philosopher", "editor">>

Roles == {Panel[i] : i \in 1..Len(Panel)}

SECURITY_GUARD == "security_guard"

NoValue == [kind |-> "none"]

----------------------------------------------------------------------------
(* openrouter_client.py: call_kimi.                                        *)

max_retries == 3

\* status codes after which the RequestException handler returns at once
NoRetryStatus == {400, 401, 403, 404}

\* the error statuses a response may carry (raise_for_status raises HTTPError)
ErrorStatus == {400, 401, 403, 404, 429, 500}

(* The text of message["content"].  None when the key holds null; otherwise *)
(* what the parser looks at: open = text.find("{"), close = text.rfind("}"), *)
(* and what json.loads makes of text[open:close+1]: invalid, or an object   *)
(* whose "approve" member is absent or has a JSON value.                    *)
JsonApprove ==
    {[type |-> "bool", b |-> TRUE], [type |-> "bool", b |-> FALSE],
     [type |-> "string", b |-> TRUE], [type |-> "number", b |-> TRUE],
     [type |-> "null", b |-> FALSE], [type |-> "absent", b |-> FALSE]}

\* an element of a JSON array: a string, or a value of another type
Str(v) == [type |-> "string", v |-> v]
NotStr(type, v) == [type |-> type, v |-> v]

\* the "concerns" or "suggestions" member of the object: absent, an array, or
\* a value that is no array
NoList == [type |-> "absent", items |-> <<>>]
JsonList(items) == [type |-> "list", items |-> items]

JsonConcerns == {NoList, JsonList(<<Str("c1")>>), [type |-> "string", items |-> <<>>]}

NoBody == [valid |-> FALSE, approve |-> [type |-> "absent", b |-> FALSE],
           concerns |-> NoList, suggestions |-> NoList]

Body(approve, concerns, suggestions) ==
    [valid |-> TRUE, approve |-> approve, concerns |-> concerns,
     suggestions |-> suggestions]

Bodies == {NoBody}
          \cup {Body(a, c, NoList) : a \in JsonApprove, c \in JsonConcerns}

NoneText == [none |-> TRUE, open |-> -1, close |-> -1,
             body |-> NoBody]

Texts ==
    {NoneText}
    \cup {[none |-> FALSE, open |-> o, close |-> c, body |-> b] :
            o \in {-1, 0}, c \in {-1}, b \in {CHOOSE x \in Bodies : ~x.valid}}
    \cup {[none |-> FALSE, open |-> 1, close |-> 0, body |-> b] :
            b \in {CHOOSE x \in Bodies : ~x.valid}}
    \cup {[none |-> FALSE, open |-> 0, close |-> 5, body |-> b] : b \in Bodies}

(* What one iteration of the retry loop meets: requests.post raising        *)
(* Timeout or another RequestException before a response exists, a response *)
(* with an error status, a 200 response whose body response.json() rejects  *)
(* (a RequestException in requests >= 2.27, a ValueError before), a body    *)
(* without choices[0].message, or a well-formed completion.                 *)
AttemptOutcomes ==
    {[kind |-> "timeout", status |-> 0, text |-> NoneText],
     [kind |-> "conn_error", status |-> 0, text |-> NoneText],
     [kind |-> "json_reqexc", status |-> 200, text |-> NoneText],
     [kind |-> "json_valueerror", status |-> 200, text |-> NoneText],
     [kind |-> "malformed", status |-> 200, text |-> NoneText]}
    \cup {[kind |-> "http_error", status |-> s, text |-> NoneText] : s \in ErrorStatus}
    \cup {[kind |-> "completion", status |-> 200, text |-> t] : t \in Texts}

\* call_kimi's results: {"error": ...}, {"content": ...}, or an exception
KimiError(diag) == [kind |-> "error", diag |-> diag, text |-> NoneText]
KimiContent(text) == [kind |-> "content", diag |-> "", text |-> text]
KimiRaise(exc) == [kind |-> "raise", diag |-> exc, text |-> NoneText]

\* the locals of call_kimi at the top of the loop; response 0 means unbound
KimiStart == [attempt |-> 0, response |-> 0, last_error |-> "None",
              requests |-> 0, sleeps |-> 0, result |-> NoValue]

(* lines 120-125: the backoff after a failed attempt and the loop's end     *)
KimiBackoff(st) ==
    LET slept == IF st.attempt < max_retries - 1 THEN st.sleeps + 1 ELSE st.sleeps
        next == [st EXCEPT !.attempt = st.attempt + 1, !.sleeps = slept]
    IN  IF next.attempt < max_retries
        THEN next
        ELSE [next EXCEPT !.result = KimiError("after retries")]

(* lines 89-118: one iteration of the loop on outcome o                     *)
KimiIteration(st, o) ==
    LET sent == [st EXCEPT !.requests = st.requests + 1]
    IN  CASE o.kind = "completion" ->
               [sent EXCEPT !.response = 200, !.result = KimiContent(o.text)]
          [] o.kind = "timeout" ->
               KimiBackoff([sent EXCEPT !.last_error = "Request timeout (120s)"])
          [] o.kind = "conn_error" ->
               \* response keeps what an earlier iteration bound, if any
               IF sent.response = 0
               THEN [sent EXCEPT !.last_error = "Network error",
                                 !.result = KimiRaise("UnboundLocalError")]
               ELSE IF sent.response \in NoRetryStatus
                    THEN [sent EXCEPT !.last_error = "Network error",
                                      !.result = KimiError("Network error")]
                    ELSE KimiBackoff([sent EXCEPT !.last_error = "Network error"])
          [] o.kind \in {"http_error", "json_reqexc"} ->
               IF o.status \in NoRetryStatus
               THEN [sent EXCEPT !.response = o.status, !.last_error = "Network error",
                                 !.result = KimiError("Network error")]
               ELSE KimiBackoff([sent EXCEPT !.response = o.status,
                                             !.last_error = "Network error"])
          [] OTHER ->
               \* except Exception: the body is no JSON or lacks choices[0].message
               [sent EXCEPT !.response = o.status, !.result = KimiError("exception")]

----------------------------------------------------------------------------
(* agent_council.py: _get_agent_opinion.                                   *)

Vote(role, approve, reasoning, concerns, suggestions) ==
    [raised |-> FALSE, agent |-> role, approve |-> approve, reasoning |-> reasoning,
     concerns |-> concerns, suggestions |-> suggestions]

\* an exception leaving _get_agent_opinion
RaisedVote(role) ==
    [raised |-> TRUE, agent |-> role, approve |-> FALSE, reasoning |-> "exception",
     concerns |-> <<>>, suggestions |-> <<>>]

\* lines 319-320: data.get(key, []) if it is a list, [] otherwise
ListOf(member) == IF member.type = "list" THEN member.items ELSE <<>>

(* lines 305-337: the response text parsed into a vote                      *)
ParseOpinion(role, text) ==
    IF text.none
    THEN RaisedVote(role)        \* None has no find(): AttributeError, not caught
    ELSE LET start == text.open
             end == text.close + 1
         IN  IF start >= 0 /\ end > start /\ text.body.valid
                /\ text.body.approve.type = "bool"
             THEN Vote(role, text.body.approve.b, "model",
                       ListOf(text.body.concerns), ListOf(text.body.suggestions))
             ELSE Vote(role, FALSE, "PARSE ERROR",
                       <<Str("Response parsing failed - manual review recommended")>>,
                       <<>>)

(* lines 293-337: the vote made of call_kimi's result                       *)
GetAgentOpinion(role, result) ==
    CASE result.kind = "raise" -> RaisedVote(role)
      [] result.kind = "error" -> Vote(role, FALSE, "Error", <<Str("API error")>>, <<>>)
      [] OTHER -> ParseOpinion(role, result.text)


\* the results of call_kimi a reviewer call is drawn from
ApproveText == [none |-> FALSE, open |-> 0, close |-> 5,
                body |-> Body([type |-> "bool", b |-> TRUE], NoList, NoList)]
RejectText == [none |-> FALSE, open |-> 0, close |-> 5,
               body |-> Body([type |-> "bool", b |-> FALSE], NoList, NoList)]
ProseText == [none |-> FALSE, open |-> -1, close |-> -1,
              body |-> NoBody]

RApprove == KimiContent(ApproveText)
RReject == KimiContent(RejectText)
RProse == KimiContent(ProseText)
RError == KimiError("after retries")
RRaise == KimiRaise("UnboundLocalError")

ReviewOutcomes == {RApprove, RReject, RProse, RError, RRaise}

----------------------------------------------------------------------------
(* agent_council.py: deliberate, deliberate_with_id, _save_deliberation.   *)

\* a loop that leaves out the vote of a reviewer whose call failed
CollectVoteSkipFailed(votes, vote) ==
    IF vote.reasoning = "Error" THEN votes ELSE Append(votes, vote)

(* line 354: votes.append(vote)                                             *)
CollectVote(votes, vote) == Append(votes, vote)

(* lines 351-355: one _get_agent_opinion call per role, in panel order; an  *)
(* exception leaves the loop and deliberate at once.  answers maps each     *)
(* role to the result call_kimi gives for it.                               *)
RECURSIVE Gather(_, _, _)
Gather(answers, i, votes) ==
    IF i > Len(Panel)
    THEN [raised |-> FALSE, votes |-> votes]
    ELSE LET vote == GetAgentOpinion(Panel[i], answers[Panel[i]])
         IN  IF vote.raised
             THEN [raised |-> TRUE, votes |-> votes]
             ELSE Gather(answers, i + 1, CollectVote(votes, vote))

Approvals(votes) == Cardinality({i \in DOMAIN votes : votes[i].approve})

\* a majority test that lets one half of the rounded-down total pass
BaseRuleAtLeastHalf(approvals, total, require_unanimous) ==
    IF require_unanimous
    THEN IF approvals = total THEN "publish" ELSE "revise"
    ELSE IF approvals >= total \div 2 THEN "publish" ELSE "revise"

(* lines 362-365: unanimity, or approvals > total / 2                       *)
BaseRule(approvals, total, require_unanimous) ==
    IF require_unanimous
    THEN IF approvals = total THEN "publish" ELSE "revise"
    ELSE IF 2 * approvals > total THEN "publish" ELSE "revise"

\* a veto that is skipped in majority mode when the majority approves
SecurityVetoUnlessMajority(votes, decision) ==
    LET at == {i \in DOMAIN votes : votes[i].agent = SECURITY_GUARD}
    IN  IF at # {} /\ ~votes[CHOOSE i \in at : \A j \in at : i <= j].approve
           /\ 2 * Cardinality({i \in DOMAIN votes : votes[i].approve}) <= Len(votes)
        THEN "revise"
        ELSE decision

(* lines 367-371: the first security_guard vote, if it rejects, forces      *)
(* revise                                                                   *)
SecurityVeto(votes, decision) ==
    LET at == {i \in DOMAIN votes : votes[i].agent = SECURITY_GUARD}
    IN  IF at # {} /\ ~votes[CHOOSE i \in at : \A j \in at : i <= j].approve
        THEN "revise"
        ELSE decision

(* lines 357-371                                                            *)
Decide(votes, require_unanimous) ==
    SecurityVeto(votes, BaseRule(Approvals(votes), Len(votes), require_unanimous))

\* line 539: decision.upper()
Upper(decision) ==
    CASE decision = "publish" -> "PUBLISH"
      [] decision = "revise" -> "REVISE"
      [] OTHER -> "NONE"

\* lines 536-537: the [:5] of both lists
SummaryCap == 5

\* lines 526-532: the elements of every vote's list, field being "concerns"
\* or "suggestions"
AllItems(votes, field) ==
    UNION {{votes[i][field][k] : k \in DOMAIN votes[i][field]} : i \in DOMAIN votes}
\* a list(set(items)) without the [:5]
Uncapped(items) ==
    {q \in [1..Cardinality(items) -> items] :
        \A i, j \in 1..Cardinality(items) : i # j => q[i] # q[j]}

(* lines 536-537: list(set(items))[:5].  A set iterates in an order of its  *)
(* own (string hashes differ from one interpreter run to the next), so any  *)
(* arrangement of any SummaryCap elements may come out.                     *)
Capped(items) ==
    LET n == IF Cardinality(items) < SummaryCap THEN Cardinality(items) ELSE SummaryCap
    IN  {q \in [1..n -> items] : \A i, j \in 1..n : i # j => q[i] # q[j]}

\* the orders the two sets of a deliberation may iterate in
ConsensusOrders(votes) ==
    [concerns : Capped(AllItems(votes, "concerns")),
     suggestions : Capped(AllItems(votes, "suggestions"))]

(* lines 536-545: set() raises TypeError on an unhashable element and       *)
(* '; '.join on an element that is no str                                   *)
ConsensusRaises(votes) ==
    \E item \in AllItems(votes, "concerns") \cup AllItems(votes, "suggestions") :
        item.type # "string"

Strings(items) == [i \in DOMAIN items |-> items[i].v]

(* lines 524-551: the summary as the sequence of its parts: "Decision:" and *)
(* the upper-cased decision, "Key concerns:" with the concerns if there are *)
(* any, "Suggestions:" likewise, then a line per vote                       *)
GenerateConsensus(votes, decision, order) ==
    <<"Decision:", Upper(decision)>>
    \o (IF order.concerns # <<>>
        THEN << <<"Key concerns:">> \o Strings(order.concerns) >> ELSE <<>>)
    \o (IF order.suggestions # <<>>
        THEN << <<"Suggestions:">> \o Strings(order.suggestions) >> ELSE <<>>)
    \o [i \in 1..Len(votes) |->
           <<votes[i].agent, IF votes[i].approve THEN "approved" ELSE "rejected">>]

(* lines 487-502: the row inserted; created_at is CURRENT_TIMESTAMP         *)
DeliberationRow(topic, content, votes, decision, consensus, t) ==
    [topic |-> topic, content |-> content, votes |-> votes,
     final_decision |-> decision, consensus_summary |-> consensus, created_at |-> t]

(* lines 507-518: one agent_votes row per vote of the decision              *)
VoteRows(deliberation_id, votes) ==
    [i \in 1..Len(votes) |->
        [deliberation_id |-> deliberation_id, agent_role |-> votes[i].agent,
         approve |-> votes[i].approve]]
\* a save that replaces the latest row of the topic instead of adding a row
DeliberateUpsert(topic, content, require_unanimous, answers, rows, t, order) ==
    LET g == Gather(answers, 1, <<>>)
        decision == Decide(g.votes, require_unanimous)
        mine == {i \in DOMAIN rows : rows[i].topic = topic}
        at == IF mine = {} THEN Len(rows) + 1
              ELSE CHOOSE i \in mine : \A j \in mine : j <= i
        row == [topic |-> topic, content |-> content, votes |-> g.votes,
                final_decision |-> decision,
                consensus_summary |-> <<"Decision:", decision>>, created_at |-> t]
    IN  IF g.raised
        THEN [raised |-> TRUE, votes |-> <<>>, final_decision |-> "none",
              consensus_summary |-> <<>>, rows |-> rows, lastrowid |-> 0,
              vote_rows |-> <<>>]
        ELSE [raised |-> FALSE, votes |-> g.votes, final_decision |-> decision,
              consensus_summary |-> <<"Decision:", decision>>,
              rows |-> IF mine = {} THEN Append(rows, row)
                       ELSE [rows EXCEPT ![at] = row],
              lastrowid |-> at,
              vote_rows |-> [i \in 1..Len(g.votes) |->
                               [deliberation_id |-> at, agent_role |-> g.votes[i].agent,
                                approve |-> g.votes[i].approve]]]

\* the votes deliberate gathers from the answers, as far as it gets
GatheredVotes(answers) == Gather(answers, 1, <<>>).votes

(* lines 339-389: deliberate on the answers the reviewers give, against the *)
(* table rows at time t, the two sets of _generate_consensus iterating in   *)
(* order: the CouncilDecision, the table afterwards, the lastrowid of the   *)
(* insert and the agent_votes rows inserted with it; or an exception (of a  *)
(* reviewer call or of _generate_consensus), with nothing written.          *)
Deliberate(topic, content, require_unanimous, answers, rows, t, order) ==
    LET g == Gather(answers, 1, <<>>)
        decision == Decide(g.votes, require_unanimous)
        consensus == GenerateConsensus(g.votes, decision, order)
    IN  IF g.raised \/ ConsensusRaises(g.votes)
        THEN [raised |-> TRUE, votes |-> <<>>, final_decision |-> "none",
              consensus_summary |-> <<>>, rows |-> rows, lastrowid |-> 0,
              vote_rows |-> <<>>]
        ELSE [raised |-> FALSE, votes |-> g.votes, final_decision |-> decision,
              consensus_summary |-> consensus,
              rows |-> Append(rows, DeliberationRow(topic, content, g.votes, decision,
                                                    consensus, t)),
              lastrowid |-> Len(rows) + 1,
              vote_rows |-> VoteRows(Len(rows) + 1, g.votes)]

\* a lookup that finds no row of the topic
LastDeliberationIdsNoRow(rows, topic) == {0}

(* lines 401-413: SELECT id ... WHERE topic = ? ORDER BY created_at DESC    *)
(* LIMIT 1.  created_at has a resolution of one second and the statement    *)
(* names no second sort key: any row of the topic with the latest           *)
(* created_at may come first.  0 stands for None.                           *)
LastDeliberationIds(rows, topic) ==
    LET mine == {i \in DOMAIN rows : rows[i].topic = topic}
        latest == {i \in mine : \A j \in mine : rows[j].created_at <= rows[i].created_at}
    IN  IF mine = {} THEN {0} ELSE latest


----------------------------------------------------------------------------
(* SpecClient: one _get_agent_opinion(role, ...) call.                     *)

ClientIdle == [pc |-> "off", role |-> SECURITY_GUARD, has_key |-> TRUE,
               kimi |-> KimiStart, vote |-> NoValue]

\* what a call gave back; safety notes what the security reviewer answers
\* about the content at the time of publish's safety check
Ret(op, pub, kind, detail, decision, results) ==
    [op |-> op, pub |-> pub, kind |-> kind, detail |-> detail,
     decision |-> decision, results |-> results, safety |-> "none"]

NoRet == Ret("none", 0, "none", "", "", <<>>)

WorkerIdle ==
    [pc |-> "idle", inq |-> FALSE, pub |-> 0, title |-> "", content |-> 0,
     targets |-> <<>>, decision |-> NoValue, myrow |-> 0, delib_id |-> 0,
     ret |-> NoRet, queue |-> <<>>, qres |-> NoValue, pending |-> <<>>,
     trace |-> <<>>]

DeliberateIdle ==
    [pc |-> "off", topic |-> "", content |-> 0, require_unanimous |-> FALSE,
     answers |-> [r \in Roles |-> RApprove], decision |-> NoValue, id |-> 0]

ReviewIdle ==
    [pc |-> "off", topic |-> {}, content |-> NoValue, force_council |-> FALSE,
     answers |-> [r \in Roles |-> RApprove], screened |-> NoValue,
     screening |-> NoValue, decision |-> NoValue, reviewer_calls |-> 0]

RunIdle ==
    [pc |-> "off", pub |-> 0, title |-> "", content |-> 0,
     answers |-> [r \in Roles |-> RApprove], tx |-> NoValue, i |-> 0, votes |-> <<>>,
     final_decision |-> "", myrow |-> 0, k |-> 0, delib_id |-> 0, at |-> "",
     before |-> NoValue, ret |-> [kind |-> "none", detail |-> ""]]

WriterIdle ==
    [pc |-> "off", pub |-> 0, doc |-> <<>>, temp |-> <<>>, has_temp |-> FALSE,
     k |-> 0, before |-> <<>>, at |-> "", ret |-> "none", platform |-> "posix"]

ConsensusIdle ==
    [pc |-> "off", votes |-> <<>>, require_unanimous |-> FALSE, decision |-> "",
     summary |-> <<>>]

----------------------------------------------------------------------------
(* guardian.py: quick_check, ai_review, check_content and the callers of   *)
(* Guardian.  A content is what the patterns find in it: the blocked,      *)
(* warning and safe patterns that match (indices into the lists) and       *)
(* whether it is longer than 500 characters.                               *)
(* SpecGuardian: a Guardian object whose check methods are called, and     *)
(* check_content called directly.                                          *)

BLOCKED_PATTERNS == <<"kill", "doxx", "slurs">>
WARNING_PATTERNS == <<"attack", "manipulation", "operator", "insult">>
SAFE_PATTERNS == <<"report", "observation", "thank">>

GuardianFlag(kind, v) == [type |-> kind, v |-> v]

GuardianContents ==
    [blocked : {{}, {1}, {2, 3}}, warning : {{}, {1}, {2, 4}},
     safe : {{}, {1}, {1, 3}}, long : BOOLEAN]

\* the flags of the patterns of a list that match, in the list's order
RECURSIVE MatchFlags(_, _, _, _)
MatchFlags(kind, patterns, matching, i) ==
    IF i > Len(patterns)
    THEN <<>>
    ELSE (IF i \in matching THEN <<GuardianFlag(kind, patterns[i])>> ELSE <<>>)
         \o MatchFlags(kind, patterns, matching, i + 1)

(* lines 61-92: quick_check, the status and the flags                       *)
quick_check(content) ==
    IF content.blocked # {}
    THEN [status |-> "block",
          flags |-> <<Head(MatchFlags("BLOCKED", BLOCKED_PATTERNS, content.blocked, 1))>>]
    ELSE IF content.warning # {}
    THEN [status |-> "review",
          flags |-> MatchFlags("WARNING", WARNING_PATTERNS, content.warning, 1)]
    ELSE IF Cardinality(content.safe) >= 2
    THEN [status |-> "safe", flags |-> <<GuardianFlag("SAFE", "routine_content")>>]
    ELSE IF content.long
    THEN [status |-> "review", flags |-> <<GuardianFlag("LENGTH", "long_content")>>]
    ELSE [status |-> "safe", flags |-> <<>>]

(* The "approved" member of the reviewer's JSON object: its JSON type and   *)
(* b, the truth value Python gives it (true, a non-empty string, a number   *)
(* other than 0).                                                           *)
JsonApproved ==
    JsonApprove \cup {[type |-> "string", b |-> FALSE], [type |-> "number", b |-> FALSE]}

PyBool(b) == [type |-> "bool", b |-> b]

\* the "concerns" member: absent, an array, null or another value
GuardianConcerns ==
    {NoList, JsonList(<<>>), JsonList(<<Str("c1")>>),
     [type |-> "null", items |-> <<>>], [type |-> "string", items |-> <<>>]}

NoGuardianBody == [valid |-> FALSE, approved |-> [type |-> "absent", b |-> FALSE],
                   concerns |-> NoList]

GuardianBodies ==
    {NoGuardianBody}
    \cup [valid : {TRUE}, approved : JsonApproved, concerns : GuardianConcerns]

\* message["content"] as ai_review sees it: None, or find("{"), rfind("}")
\* and what json.loads makes of the text between them
GuardianTexts ==
    {[none |-> TRUE, open |-> -1, close |-> -1, body |-> NoGuardianBody],
     [none |-> FALSE, open |-> -1, close |-> -1, body |-> NoGuardianBody],
     [none |-> FALSE, open |-> 1, close |-> 0, body |-> NoGuardianBody]}
    \cup {[none |-> FALSE, open |-> 0, close |-> 5, body |-> b] : b \in GuardianBodies}

\* what call_kimi gives ai_review
GuardianAnswers ==
    {KimiError("after retries"), KimiRaise("UnboundLocalError")}
    \cup {[kind |-> "content", diag |-> "", text |-> t] : t \in GuardianTexts}

GuardianResult(approved, reason, flags) ==
    [raised |-> FALSE, approved |-> approved, reason |-> reason, flags |-> flags]

GuardianRaised(exc) ==
    [raised |-> TRUE, approved |-> PyBool(FALSE), reason |-> exc, flags |-> <<>>]

NoGuardianResult == GuardianRaised("none")

(* lines 128-135: data.get("approved", False), data.get("concerns", [])     *)
Taken(body) ==
    [raised |-> FALSE,
     approved |-> IF body.approved.type = "absent" THEN PyBool(FALSE) ELSE body.approved,
     reason |-> "model",
     flags |-> IF body.concerns.type = "absent" THEN JsonList(<<>>) ELSE body.concerns]

(* lines 95-152: ai_review on call_kimi's result; flags is still the JSON   *)
(* value of "concerns"                                                      *)
ai_review(result) ==
    CASE result.kind = "raise" ->
           [GuardianRaised(result.diag) EXCEPT !.flags = JsonList(<<>>)]
      [] result.kind = "error" ->
           GuardianResult(PyBool(FALSE), "Review failed",
                          JsonList(<<GuardianFlag("ERROR", "ai_review_failed")>>))
      [] OTHER ->
           LET text == result.text
               start == text.open
               end == text.close + 1
           IN  IF text.none
               THEN \* None has no find(): AttributeError, not caught
                    [GuardianRaised("AttributeError") EXCEPT !.flags = JsonList(<<>>)]
               ELSE IF start >= 0 /\ end > start /\ text.body.valid
               THEN Taken(text.body)
               ELSE GuardianResult(PyBool(FALSE), "Could not parse AI review",
                                   JsonList(<<GuardianFlag("ERROR", "parse_failed")>>))

(* lines 187-198: result.flags = flags + result.flags, a TypeError when the *)
(* reviewer's "concerns" is no list                                         *)
Reviewed(flags, review) ==
    IF review.raised
    THEN GuardianRaised(review.reason)
    ELSE IF review.flags.type # "list"
    THEN GuardianRaised("TypeError")
    ELSE [review EXCEPT !.flags = flags \o review.flags.items]

\* lines 212, 223, 231 and 190: the callers' test of result.approved
TreatedAsApproved(result) == ~result.raised /\ result.approved.b

GuardianIdle ==
    [pc |-> "off", caller |-> "", content |-> NoValue, force_ai |-> FALSE, status |-> "",
     flags |-> <<>>, answer |-> NoValue, ai_calls |-> 0,
     result |-> NoGuardianResult, checks_today |-> 0, blocks_today |-> 0]

RestIdle == gc = ConsensusIdle /\ fw = <<>> /\ gd = GuardianIdle

SideIdle == sr = ReviewIdle /\ rn = RunIdle /\ ws = WriterIdle /\ RestIdle

StoreInit ==
    /\ now = 0
    /\ publications = <<>>
    /\ publication_log = [i \in 1..MaxPubs |-> <<>>]
    /\ council_deliberations = <<>>
    /\ agent_votes = <<>>
    /\ discoveries = <<>>

InitClient ==
    /\ StoreInit
    /\ wk = [w \in Workers |-> WorkerIdle]
    /\ calls = 0
    /\ dl = DeliberateIdle
    /\ SideIdle
    /\ \E role \in Roles, key \in BOOLEAN :
          cl = [ClientIdle EXCEPT !.pc = "call", !.role = role, !.has_key = key]

(* openrouter_client.py lines 66-88: no key, no request                     *)
KimiEnter ==
    /\ cl.pc = "call"
    /\ cl' = IF cl.has_key
             THEN [cl EXCEPT !.pc = "attempt"]
             ELSE [cl EXCEPT !.pc = "returned",
                             !.kimi.result = KimiError("No OPENROUTER_API_KEY found")]
    /\ UNCHANGED <<store, wk, calls, dl, side>>

(* openrouter_client.py lines 89-125: one iteration of the retry loop       *)
KimiAttempt ==
    /\ cl.pc = "attempt"
    /\ \E o \in AttemptOutcomes :
          LET st == KimiIteration(cl.kimi, o)
          IN  cl' = [cl EXCEPT !.kimi = st,
                               !.pc = IF st.result = NoValue THEN "attempt" ELSE "returned"]
    /\ UNCHANGED <<store, wk, calls, dl, side>>

(* agent_council.py lines 295-337: the vote made of the result              *)
OpinionReturn ==
    /\ cl.pc = "returned"
    /\ cl' = [cl EXCEPT !.pc = "done", !.vote = GetAgentOpinion(cl.role, cl.kimi.result)]
    /\ UNCHANGED <<store, wk, calls, dl, side>>

NextClient == KimiEnter \/ KimiAttempt \/ OpinionReturn

SpecClient == InitClient /\ [][NextClient]_vars

----------------------------------------------------------------------------
(* SpecDeliberate: one deliberate_with_id(topic, content, require_unanimous) *)
(* call, for every way the five reviewer calls may end.                     *)

InitDeliberate ==
    /\ StoreInit
    /\ wk = [w \in Workers |-> WorkerIdle]
    /\ calls = 0
    /\ cl = ClientIdle
    /\ SideIdle
    /\ \E answers \in [Roles -> ReviewOutcomes], unanimous \in BOOLEAN :
          dl = [DeliberateIdle EXCEPT !.pc = "deliberate", !.topic = "T1",
                                      !.content = 1, !.answers = answers,
                                      !.require_unanimous = unanimous]

(* agent_council.py line 396: deliberate, which saves the decision          *)
DlDeliberate ==
    /\ dl.pc = "deliberate"
    /\ \E order \in ConsensusOrders(GatheredVotes(dl.answers)) :
       LET d == Deliberate(dl.topic, dl.content, dl.require_unanimous, dl.answers,
                           council_deliberations, now, order)
       IN  /\ council_deliberations' = d.rows
           /\ agent_votes' = agent_votes \o d.vote_rows
           /\ dl' = [dl EXCEPT !.pc = IF d.raised THEN "raised" ELSE "lastid",
                               !.decision = [votes |-> d.votes,
                                             final_decision |-> d.final_decision,
                                             lastrowid |-> d.lastrowid]]
    /\ UNCHANGED <<now, publications, publication_log, discoveries, wk, calls,
                   cl, side>>

(* agent_council.py lines 398-399: the id looked up by topic                *)
DlLastId ==
    /\ dl.pc = "lastid"
    /\ \E id \in LastDeliberationIds(council_deliberations, dl.topic) :
          dl' = [dl EXCEPT !.pc = "done", !.id = id]
    /\ UNCHANGED <<store, wk, calls, cl, side>>

NextDeliberate == DlDeliberate \/ DlLastId

SpecDeliberate == InitDeliberate /\ [][NextDeliberate]_vars


----------------------------------------------------------------------------
(* publication_coordinator.py: the website feed file discoveries.json.     *)

(* A file is the sequence of the pieces json.dump writes: the opening       *)
(* bracket, one piece per entry, the closing bracket.  <<>> stands for a    *)
(* file that does not exist.                                                *)
Piece(t, id) == [t |-> t, id |-> id]

\* lines 290-302: the entry of publication pub_id, "id": f"pub-{pub_id}"
Entry(pub_id) == Piece("entry", pub_id)

\* line 313: json.dump(discoveries, f)
Dump(entries) == <<Piece("open", 0)>> \o entries \o <<Piece("close", 0)>>

\* the file holds a whole JSON document
Complete(file) ==
    /\ Len(file) >= 2
    /\ file[1].t = "open"
    /\ file[Len(file)].t = "close"
    /\ \A i \in 2..(Len(file) - 1) : file[i].t = "entry"

\* lines 283-287: json.load of the file if it exists, [] otherwise
Load(file) == IF file = <<>> THEN <<>> ELSE SubSeq(file, 2, Len(file) - 1)

----------------------------------------------------------------------------
(* publication_coordinator.py: PublicationCoordinator.                     *)

\* PublicationStatus
DRAFT == "draft"
PENDING_REVIEW == "pending_review"
IN_DELIBERATION == "in_deliberation"
APPROVED == "approved"
REJECTED == "rejected"
PUBLISHED == "published"

\* what callers submit: a title, a text of their own (the k-th submission
\* carries text k), and the targets asked for
Titles == {"T1", "T2"}
TargetLists == {<<"moltbook", "telegram", "website">>}

\* how the panel may answer one deliberation of the coordinator
PanelScenarios ==
    {[r \in Roles |-> RApprove],
     [r \in Roles |-> IF r = SECURITY_GUARD THEN RReject ELSE RApprove],
     [r \in Roles |-> IF r = "sociologist" THEN RRaise ELSE RApprove]}

(* security_monitor.py lines 63-71: the attributes SecurityMonitor.__init__ *)
(* sets; the class defines no attribute, property or method named council   *)
SecurityMonitorAttrs == {"db_path", "alerts", "injection_patterns"}

NoNotes == "NULL"

LogEntry(pub_id, action, notes) ==
    [publication_id |-> pub_id, action |-> action, notes |-> notes]

\* INSERT INTO publication_log
LogInsert(log, entry) == [log EXCEPT ![entry.publication_id] = Append(@, entry)]

\* the locals of a call are gone when it returns
Locals(rec) == [rec EXCEPT !.title = "", !.content = 0, !.targets = <<>>,
                           !.decision = NoValue, !.myrow = 0, !.delib_id = 0]

ReviewerAnswer(answer) ==
    LET vote == GetAgentOpinion(SECURITY_GUARD, answer)
    IN  IF vote.raised THEN "raise" ELSE IF vote.approve THEN "approve" ELSE "reject"

QueueResults == [processed |-> 0, approved |-> 0, rejected |-> 0, published |-> 0,
                 errors |-> <<>>]

(* process_queue line 379: the next pending id, or the loop's end           *)
NextItem(rec) ==
    IF rec.queue = <<>>
    THEN [rec EXCEPT !.pc = "idle", !.inq = FALSE]
    ELSE [rec EXCEPT !.pc = "rd_select", !.pub = Head(rec.queue),
                     !.queue = Tail(rec.queue)]

\* what process_queue got back from a call it made for a publication
Event(ret) == [pub |-> ret.pub, op |-> ret.op, kind |-> ret.kind,
               decision |-> ret.decision]

\* the calls process_queue has made so far and what they gave back
Traced(rec, ret) == IF rec.inq THEN Append(rec.trace, Event(ret)) ELSE rec.trace
\* a loop that an error result or an exception of run_deliberation ends
RdReturnEndsLoop(rec, ret) ==
    LET r == [Locals(rec) EXCEPT !.ret = ret, !.trace = Traced(rec, ret)]
    IN  IF ~rec.inq
        THEN [r EXCEPT !.pc = "idle"]
        ELSE IF ret.kind \in {"error", "exception"}
             THEN [r EXCEPT !.qres.errors = Append(@, rec.pub), !.pc = "idle",
                            !.inq = FALSE, !.queue = <<>>]
             ELSE IF ret.decision = "publish"
                  THEN [r EXCEPT !.qres.processed = @ + 1, !.qres.approved = @ + 1,
                                 !.pc = "pb_select"]
                  ELSE NextItem([r EXCEPT !.qres.processed = @ + 1,
                                          !.qres.rejected = @ + 1])

(* run_deliberation returns ret to its caller: the outside, or process_queue *)
(* lines 382-402                                                            *)
RdReturn(rec, ret) ==
    LET r == [Locals(rec) EXCEPT !.ret = ret, !.trace = Traced(rec, ret)]
    IN  IF ~rec.inq
        THEN [r EXCEPT !.pc = "idle"]
        ELSE IF ret.kind \in {"error", "exception"}
             THEN NextItem([r EXCEPT !.qres.errors = Append(@, rec.pub)])
             ELSE IF ret.decision = "publish"
                  THEN [r EXCEPT !.qres.processed = @ + 1, !.qres.approved = @ + 1,
                                 !.pc = "pb_select"]
                  ELSE NextItem([r EXCEPT !.qres.processed = @ + 1,
                                          !.qres.rejected = @ + 1])

(* publish returns ret to its caller: the outside, or process_queue lines   *)
(* 394-402                                                                  *)
PbReturn(rec, ret) ==
    LET r == [Locals(rec) EXCEPT !.ret = ret, !.trace = Traced(rec, ret)]
    IN  IF ~rec.inq
        THEN [r EXCEPT !.pc = "idle"]
        ELSE IF ret.kind = "exception"
             THEN NextItem([r EXCEPT !.qres.errors = Append(@, rec.pub)])
             ELSE IF ret.kind = "error"
                  THEN NextItem(r)
                  ELSE NextItem([r EXCEPT !.qres.published = @ + 1])

SetStatus(rows, id, status) == [rows EXCEPT ![id].status = status]

Tick ==
    /\ now < MaxTime
    /\ now' = now + 1
    /\ UNCHANGED <<publications, publication_log, council_deliberations,
                   agent_votes, discoveries, wk, calls, dl, cl, side>>

(* lines 111-141: one transaction inserts the row and its log entry         *)
SubmitForReview ==
    /\ Len(publications) < MaxPubs
    /\ \E title \in Titles, targets \in TargetLists :
          /\ publications' = Append(publications,
                [title |-> title, content |-> Len(publications) + 1,
                 status |-> PENDING_REVIEW, deliberation_id |-> 0,
                 targets |-> targets, created_at |-> now])
          /\ publication_log' = LogInsert(publication_log,
                LogEntry(Len(publications) + 1, "submitted", "Submitted for review"))
    /\ UNCHANGED <<now, council_deliberations, agent_votes, discoveries, wk,
                   calls, dl, cl, side>>

\* a caller invokes run_deliberation(pub_id)
RdCall(w) ==
    /\ wk[w].pc = "idle"
    /\ calls < MaxCalls
    /\ calls' = calls + 1
    /\ \E id \in 1..MaxPubs :
          wk' = [wk EXCEPT ![w] = [WorkerIdle EXCEPT !.pc = "rd_select", !.pub = id]]
    /\ UNCHANGED <<store, dl, cl, side>>

(* lines 152-161: SELECT ... WHERE id = ? AND status = 'pending_review'     *)
RdSelect(w) ==
    /\ wk[w].pc = "rd_select"
    /\ LET id == wk[w].pub
           found == id \in DOMAIN publications
                    /\ publications[id].status = PENDING_REVIEW
       IN  wk' = [wk EXCEPT ![w] =
                IF found
                THEN [@ EXCEPT !.pc = "rd_mark", !.title = publications[id].title,
                               !.content = publications[id].content]
                ELSE RdReturn(@, Ret("run_deliberation", id, "error",
                                     "not found or not pending", "", <<>>))]
    /\ UNCHANGED <<store, calls, dl, cl, side>>

(* lines 163-177: UPDATE ... SET status = 'in_deliberation' WHERE id = ?,   *)
(* the log entry, commit                                                    *)
RdMark(w) ==
    /\ wk[w].pc = "rd_mark"
    /\ publications' = SetStatus(publications, wk[w].pub, IN_DELIBERATION)
    /\ publication_log' = LogInsert(publication_log,
                                    LogEntry(wk[w].pub, "deliberation_started", NoNotes))
    /\ wk' = [wk EXCEPT ![w].pc = "rd_deliberate"]
    /\ UNCHANGED <<now, council_deliberations, agent_votes, discoveries, calls,
                   dl, cl, side>>

(* line 181 with agent_council.py line 396: the panel is asked and the      *)
(* decision saved; an exception of a reviewer call leaves run_deliberation  *)
RdDeliberate(w) ==
    /\ wk[w].pc = "rd_deliberate"
    /\ \E answers \in PanelScenarios :
       \E order \in ConsensusOrders(GatheredVotes(answers)) :
          LET d == Deliberate(wk[w].title, wk[w].content, FALSE, answers,
                              council_deliberations, now, order)
          IN  /\ council_deliberations' = d.rows
              /\ agent_votes' = agent_votes \o d.vote_rows
              /\ wk' = [wk EXCEPT ![w] =
                    IF d.raised
                    THEN RdReturn(@, Ret("run_deliberation", @.pub, "exception",
                                         "UnboundLocalError", "", <<>>))
                    ELSE [@ EXCEPT !.pc = "rd_lastid",
                                   !.decision = [votes |-> d.votes,
                                                 final_decision |-> d.final_decision],
                                   !.myrow = d.lastrowid]]
    /\ UNCHANGED <<now, publications, publication_log, discoveries, calls, dl,
                   cl, side>>

(* agent_council.py lines 398-399: _get_last_deliberation_id(topic)         *)
RdLastId(w) ==
    /\ wk[w].pc = "rd_lastid"
    /\ \E id \in LastDeliberationIds(council_deliberations, wk[w].title) :
          wk' = [wk EXCEPT ![w].pc = "rd_finish", ![w].delib_id = id]
    /\ UNCHANGED <<store, calls, dl, cl, side>>

(* lines 189-190                                                            *)
StatusOf(final_decision) == IF final_decision = "publish" THEN APPROVED ELSE REJECTED

(* lines 183-216: UPDATE ... SET status = ?, deliberation_id = ? WHERE      *)
(* id = ?, the log entry, commit, and the result returned                   *)
RdFinish(w) ==
    /\ wk[w].pc = "rd_finish"
    /\ LET id == wk[w].pub
           fd == wk[w].decision.final_decision
       IN  /\ publications' = [publications EXCEPT ![id].status = StatusOf(fd),
                                                   ![id].deliberation_id = wk[w].delib_id]
           /\ publication_log' = LogInsert(publication_log,
                    LogEntry(id, "deliberation_complete", fd))
           /\ wk' = [wk EXCEPT ![w] =
                    RdReturn(@, Ret("run_deliberation", id, "ok", "", fd, <<>>))]
    /\ UNCHANGED <<now, council_deliberations, agent_votes, discoveries, calls,
                   dl, cl, side>>


\* a caller invokes publish(pub_id)
PbCall(w) ==
    /\ wk[w].pc = "idle"
    /\ calls < MaxCalls
    /\ calls' = calls + 1
    /\ \E id \in 1..MaxPubs :
          wk' = [wk EXCEPT ![w] = [WorkerIdle EXCEPT !.pc = "pb_select", !.pub = id]]
    /\ UNCHANGED <<store, dl, cl, side>>

\* a SELECT that forgets the status
PublishRowFoundAnyStatus(id) == id \in DOMAIN publications

(* lines 225-228: SELECT ... WHERE id = ? AND status = 'approved'           *)
PublishRowFound(id) ==
    id \in DOMAIN publications /\ publications[id].status = APPROVED

(* lines 222-236                                                            *)
PbSelect(w) ==
    /\ wk[w].pc = "pb_select"
    /\ LET id == wk[w].pub
       IN  wk' = [wk EXCEPT ![w] =
                IF PublishRowFound(id)
                THEN [@ EXCEPT !.pc = "pb_check", !.title = publications[id].title,
                               !.content = publications[id].content,
                               !.targets = publications[id].targets]
                ELSE PbReturn(@, Ret("publish", id, "error",
                                     "not approved or not found", "", <<>>))]
    /\ UNCHANGED <<store, calls, dl, cl, side>>
\* a SecurityMonitor that carries a council, whose security reviewer answers
SafetyCheckWithCouncil(answer) == GetAgentOpinion(SECURITY_GUARD, answer)

(* line 239: self.security.council.quick_security_check(content); the       *)
(* attribute lookup on the SecurityMonitor comes first                      *)
SafetyCheck(answer) ==
    IF "council" \in SecurityMonitorAttrs
    THEN GetAgentOpinion(SECURITY_GUARD, answer)
    ELSE RaisedVote(SECURITY_GUARD)

(* lines 247-258: one target's delivery; an exception of the website write  *)
(* is caught and recorded                                                   *)
TargetOutcome(target, web_ok) ==
    CASE target = "website" -> IF web_ok THEN "success" ELSE "error"
      [] target \in {"moltbook", "twitter"} -> "not_implemented"
      [] OTHER -> "error"

(* lines 244-258: the result of every requested target, in order            *)
Deliver(targets, web_ok) ==
    [i \in 1..Len(targets) |->
        [target |-> targets[i], outcome |-> TargetOutcome(targets[i], web_ok)]]

(* lines 238-276: the safety check, the deliveries, the status and the log  *)
PbCheck(w) ==
    /\ wk[w].pc = "pb_check"
    /\ \E answer \in ReviewOutcomes, web_ok \in BOOLEAN :
          LET id == wk[w].pub
              vote == SafetyCheck(answer)
              results == Deliver(wk[w].targets, web_ok)
              delivered == \E i \in DOMAIN results :
                              /\ results[i].target = "website"
                              /\ results[i].outcome = "success"
              asked == ReviewerAnswer(answer)
          IN  IF vote.raised \/ ~vote.approve
              THEN /\ wk' = [wk EXCEPT ![w] =
                         IF vote.raised
                         THEN PbReturn(@, [Ret("publish", id, "exception",
                                               "AttributeError", "", <<>>)
                                           EXCEPT !.safety = asked])
                         ELSE PbReturn(@, [Ret("publish", id, "error",
                                               "Security check failed", "", <<>>)
                                           EXCEPT !.safety = asked])]
                   /\ UNCHANGED <<publications, publication_log, discoveries>>
              ELSE /\ discoveries' = IF delivered
                                     THEN Dump(<<Entry(id)>> \o Load(discoveries))
                                     ELSE discoveries
                   /\ publications' = SetStatus(publications, id, PUBLISHED)
                   /\ publication_log' = LogInsert(publication_log,
                                                   LogEntry(id, "published", results))
                   /\ wk' = [wk EXCEPT ![w] =
                         PbReturn(@, [Ret("publish", id, "ok", "", "", results)
                                      EXCEPT !.safety = asked])]
    /\ UNCHANGED <<now, council_deliberations, agent_votes, calls, dl, cl, side>>

\* a caller invokes process_queue()
PqCall(w) ==
    /\ wk[w].pc = "idle"
    /\ calls < MaxCalls
    /\ calls' = calls + 1
    /\ wk' = [wk EXCEPT ![w] = [WorkerIdle EXCEPT !.pc = "pq_select", !.inq = TRUE,
                                                  !.qres = QueueResults]]
    /\ UNCHANGED <<store, dl, cl, side>>

(* lines 362-368: SELECT id ... WHERE status = 'pending_review' ORDER BY    *)
(* created_at ASC; rows of one second come in any order                     *)
PendingOrders ==
    LET pending == {i \in DOMAIN publications : publications[i].status = PENDING_REVIEW}
    IN  {q \in [1..Cardinality(pending) -> pending] :
            /\ \A i, j \in DOMAIN q : i # j => q[i] # q[j]
            /\ \A i, j \in DOMAIN q :
                  i < j => publications[q[i]].created_at <= publications[q[j]].created_at}

(* lines 358-379                                                            *)
PqSelect(w) ==
    /\ wk[w].pc = "pq_select"
    /\ \E q \in PendingOrders :
          wk' = [wk EXCEPT ![w] = NextItem([@ EXCEPT !.queue = q, !.pending = q])]
    /\ UNCHANGED <<store, calls, dl, cl, side>>
Init ==
    /\ StoreInit
    /\ wk = [w \in Workers |-> WorkerIdle]
    /\ calls = 0
    /\ dl = DeliberateIdle
    /\ cl = ClientIdle
    /\ SideIdle

Next ==
    \/ Tick
    \/ SubmitForReview
    \/ \E w \in DirectCallers : RdCall(w)
    \/ \E w \in Workers : RdSelect(w)
    \/ \E w \in Workers : RdMark(w)
    \/ \E w \in Workers : RdDeliberate(w)
    \/ \E w \in Workers : RdLastId(w)
    \/ \E w \in Workers : RdFinish(w)
    \/ \E w \in DirectCallers : PbCall(w)
    \/ \E w \in Workers : PbSelect(w)
    \/ \E w \in Workers : PbCheck(w)
    \/ \E w \in QueueRunners : PqCall(w)
    \/ \E w \in Workers : PqSelect(w)

Spec == Init /\ [][Next]_vars

----------------------------------------------------------------------------
(* The "process" command run for ever (SpecQueue): one process calls       *)
(* process_queue again and again and takes every step of it; publications  *)
(* are submitted meanwhile.                                                *)

\* the process calls process_queue() once more
PqAgain(w) ==
    /\ wk[w].pc = "idle"
    /\ wk' = [wk EXCEPT ![w] = [WorkerIdle EXCEPT !.pc = "pq_select", !.inq = TRUE,
                                                  !.qres = QueueResults]]
    /\ UNCHANGED <<store, calls, dl, cl, side>>

\* a step of the process
QueueStep(w) ==
    \/ PqAgain(w)
    \/ PqSelect(w)
    \/ RdSelect(w)
    \/ RdMark(w)
    \/ RdDeliberate(w)
    \/ RdLastId(w)
    \/ RdFinish(w)
    \/ PbSelect(w)
    \/ PbCheck(w)

NextQueue ==
    \/ Tick
    \/ SubmitForReview
    \/ \E w \in QueueRunners : PqAgain(w)
    \/ \E w \in QueueRunners : PqSelect(w)
    \/ \E w \in QueueRunners : RdSelect(w)
    \/ \E w \in QueueRunners : RdMark(w)
    \/ \E w \in QueueRunners : RdDeliberate(w)
    \/ \E w \in QueueRunners : RdLastId(w)
    \/ \E w \in QueueRunners : RdFinish(w)
    \/ \E w \in QueueRunners : PbSelect(w)
    \/ \E w \in QueueRunners : PbCheck(w)

(* every reviewer call returns or fails and the process keeps running: a    *)
(* step that can be taken is taken                                          *)
SpecQueue ==
    Init /\ [][NextQueue]_vars /\ \A w \in QueueRunners : WF_vars(QueueStep(w))


----------------------------------------------------------------------------
(* agent_council.py: screen_finding and smart_review (SpecReview).         *)

\* CONTROVERSIAL_KEYWORDS, in list order
CONTROVERSIAL_KEYWORDS ==
    <<"first", "unprecedented", "proof", "evidence", "discovered",
      "breakthrough", "revolutionary", "never before",
      "attack", "injection", "malicious", "hack", "exploit",
      "private", "personal", "identity", "operator", "human behind",
      "conspiracy", "coordinated", "manipulation", "propaganda",
      "sockpuppet", "astroturf", "fake", "bot army",
      "threat", "danger", "warning", "urgent", "critical",
      "rogue", "hostile", "enemy", "war">>

\* ROUTINE_KEYWORDS, in list order
ROUTINE_KEYWORDS ==
    <<"statistics", "metrics", "count", "average", "trend",
      "increased", "decreased", "stable", "pattern observed",
      "engagement", "activity", "posts", "comments">>

(* The words a topic or a content is made of, lower-cased.  A text is the   *)
(* set of its words; a content also has the number of matches of the        *)
(* agent-mention pattern (line 119) and whether len(content) > 1000.        *)
Words == {"first", "warning", "398 attacks", "3 attempts", "statistics", "posts",
          "weather"}

\* `keyword in combined` is a substring test: the keywords inside each word
KeywordsIn(word) ==
    CASE word = "first" -> {"first"}
      [] word = "warning" -> {"warning", "war"}
      [] word = "398 attacks" -> {"attack"}
      [] word = "statistics" -> {"statistics"}
      [] word = "posts" -> {"posts"}
      [] OTHER -> {}

\* line 124: the words matching \d+\s+(?:attack|injection|attempt|violation|threat)
ClaimWords == {"398 attacks", "3 attempts"}

\* lines 108 and 113-114: keyword in f"{topic_lower} {content_lower}"
Occurs(keyword, topic, content) ==
    \E w \in topic \cup content.words : keyword \in KeywordsIn(w)

Flag(kind, keyword, n) == [kind |-> kind, keyword |-> keyword, n |-> n]

(* lines 110-130: the flags, in the order they are appended                 *)
RiskFlags(topic, content) ==
    LET hits == SelectSeq(CONTROVERSIAL_KEYWORDS, LAMBDA k : Occurs(k, topic, content))
        claim_numbers == content.words \cap ClaimWords
    IN  [i \in 1..Len(hits) |-> Flag("keyword", hits[i], 0)]
        \o (IF content.mentions > 2
            THEN <<Flag("agent_mentions", "", content.mentions)>> ELSE <<>>)
        \o (IF claim_numbers # {}
            THEN <<Flag("quantified_claims", "", Cardinality(claim_numbers))>> ELSE <<>>)
        \o (IF content.long THEN <<Flag("long_content", "", 0)>> ELSE <<>>)

\* line 135
RoutineCount(topic, content) ==
    Cardinality({i \in DOMAIN ROUTINE_KEYWORDS : Occurs(ROUTINE_KEYWORDS[i], topic, content)})

ScreeningResult(needs_council, text, named, auto_decision, risk_flags) ==
    [needs_council |-> needs_council, reason |-> [text |-> text, flags |-> named],
     auto_decision |-> auto_decision, risk_flags |-> risk_flags]

\* a table that looks at the routine keywords before the flags
ScreenDecisionRoutineFirst(risk_flags, routine_count) ==
    IF routine_count >= 2
    THEN ScreeningResult(FALSE, "Routine metrics/statistics - auto-approved", <<>>,
                         "auto_approve", <<>>)
    ELSE IF Len(risk_flags) >= 3
         THEN ScreeningResult(TRUE, "Multiple risk flags detected",
                              SubSeq(risk_flags, 1, 3), "needs_review", risk_flags)
         ELSE IF Len(risk_flags) >= 1
              THEN ScreeningResult(TRUE, "Potential sensitive content",
                                   <<risk_flags[1]>>, "needs_review", risk_flags)
              ELSE ScreeningResult(FALSE, "Standard observation - auto-approved", <<>>,
                                   "auto_approve", <<>>)

(* lines 132-165: the decision made of the flags and the routine count      *)
ScreenDecision(risk_flags, routine_count) ==
    IF Len(risk_flags) = 0 /\ routine_count >= 2
    THEN ScreeningResult(FALSE, "Routine metrics/statistics - auto-approved", <<>>,
                         "auto_approve", <<>>)
    ELSE IF Len(risk_flags) >= 3
         THEN ScreeningResult(TRUE, "Multiple risk flags detected",
                              SubSeq(risk_flags, 1, 3), "needs_review", risk_flags)
         ELSE IF Len(risk_flags) >= 1
              THEN ScreeningResult(TRUE, "Potential sensitive content",
                                   <<risk_flags[1]>>, "needs_review", risk_flags)
              ELSE ScreeningResult(FALSE, "Standard observation - auto-approved", <<>>,
                                   "auto_approve", <<>>)

(* lines 99-165                                                             *)
ScreenFinding(topic, content) ==
    ScreenDecision(RiskFlags(topic, content), RoutineCount(topic, content))

\* a force flag that is not looked at
ForceCouncilIgnored(screening, force_council) == screening

(* lines 433-440: the forced screening result                               *)
ForceCouncil(screening, force_council) ==
    IF force_council
    THEN ScreeningResult(TRUE, "Forced Council review", <<>>, "needs_review",
                         <<Flag("force_council", "", 0)>>)
    ELSE screening

\* synthetic votes that leave the last panel role out
AutoVotesButLast(reason) ==
    [i \in 1..(Len(Panel) - 1) |->
        [raised |-> FALSE, agent |-> Panel[i], approve |-> TRUE,
         reasoning |-> [prefix |-> "Auto-approved", reason |-> reason],
         concerns |-> <<>>, suggestions |-> <<>>]]

(* lines 447-456: one synthetic approval per AgentRole                      *)
AutoVotes(reason) ==
    [i \in 1..Len(Panel) |->
        [raised |-> FALSE, agent |-> Panel[i], approve |-> TRUE,
         reasoning |-> [prefix |-> "Auto-approved", reason |-> reason],
         concerns |-> <<>>, suggestions |-> <<>>]]

(* line 462: f"AUTO-APPROVED: {screening.reason}"                           *)
AutoConsensus(reason) == <<"AUTO-APPROVED:", reason.text>>
\* a save that stores the summary as it was handed in
SavedConsensusUnmarked(consensus, auto_approved) == consensus

(* lines 483-485: the marker _save_deliberation puts before the summary     *)
SavedConsensus(consensus, auto_approved) ==
    IF auto_approved THEN <<"[AUTO]">> \o consensus ELSE consensus

\* what callers of smart_review pass in
Topics == SUBSET {"warning", "statistics"}
Contents == [words : SUBSET Words, mentions : {0, 3}, long : BOOLEAN]

InitReview ==
    /\ StoreInit
    /\ wk = [w \in Workers |-> WorkerIdle]
    /\ calls = 0
    /\ dl = DeliberateIdle
    /\ cl = ClientIdle
    /\ rn = RunIdle
    /\ ws = WriterIdle
    /\ RestIdle
    /\ \E topic \in Topics, content \in Contents, force \in BOOLEAN,
          answers \in PanelScenarios :
          sr = [ReviewIdle EXCEPT !.pc = "screen", !.topic = topic, !.content = content,
                                  !.force_council = force, !.answers = answers]

(* line 430: screening = screen_finding(topic, content)                     *)
SrScreen ==
    /\ sr.pc = "screen"
    /\ sr' = [sr EXCEPT !.pc = "screened",
                        !.screened = ScreenFinding(sr.topic, sr.content),
                        !.screening = ScreenFinding(sr.topic, sr.content)]
    /\ UNCHANGED <<store, wk, calls, dl, cl, rn, ws, rest>>

(* lines 433-442: the force flag, then the branch on needs_council          *)
SrForce ==
    /\ sr.pc = "screened"
    /\ LET screening == ForceCouncil(sr.screening, sr.force_council)
       IN  sr' = [sr EXCEPT !.screening = screening,
                            !.pc = IF ~screening.needs_council THEN "auto" ELSE "council"]
    /\ UNCHANGED <<store, wk, calls, dl, cl, rn, ws, rest>>

(* lines 443-469: the synthetic decision, saved with the auto-approve flag  *)
SrAutoApprove ==
    /\ sr.pc = "auto"
    /\ LET auto_votes == AutoVotes(sr.screening.reason)
           consensus == AutoConsensus(sr.screening.reason)
           id == Len(council_deliberations) + 1
       IN  /\ council_deliberations' =
                 Append(council_deliberations,
                        DeliberationRow(sr.topic, sr.content, auto_votes, "publish",
                                        SavedConsensus(consensus, TRUE), now))
           /\ agent_votes' = agent_votes \o VoteRows(id, auto_votes)
           /\ sr' = [sr EXCEPT !.pc = "done",
                               !.decision = [votes |-> auto_votes,
                                             final_decision |-> "publish",
                                             consensus_summary |-> consensus]]
    /\ UNCHANGED <<now, publications, publication_log, discoveries, wk, calls, dl, cl,
                   rn, ws, rest>>

(* lines 471-475: decision = self.deliberate(topic, content)                *)
SrCouncil ==
    /\ sr.pc = "council"
    /\ \E order \in ConsensusOrders(GatheredVotes(sr.answers)) :
       LET d == Deliberate(sr.topic, sr.content, FALSE, sr.answers,
                           council_deliberations, now, order)
           g == Gather(sr.answers, 1, <<>>)
       IN  /\ council_deliberations' = d.rows
           /\ agent_votes' = agent_votes \o d.vote_rows
           /\ sr' = [sr EXCEPT
                       !.pc = IF d.raised THEN "raised" ELSE "done",
                       !.reviewer_calls = IF g.raised THEN Len(g.votes) + 1
                                          ELSE Len(g.votes),
                       !.decision = [votes |-> d.votes,
                                     final_decision |-> d.final_decision,
                                     consensus_summary |-> d.consensus_summary]]
    /\ UNCHANGED <<now, publications, publication_log, discoveries, wk, calls, dl, cl,
                   rn, ws, rest>>

NextReview == SrScreen \/ SrForce \/ SrAutoApprove \/ SrCouncil

SpecReview == InitReview /\ [][NextReview]_vars

----------------------------------------------------------------------------
(* run_deliberation statement by statement, with storage failures and      *)
(* crashes (SpecStore).  One process calls run_deliberation; each database *)
(* statement, each reviewer call and each commit is a step.                *)

\* the tables of the sqlite file as committed
Db ==
    [publications |-> publications, publication_log |-> publication_log,
     council_deliberations |-> council_deliberations, agent_votes |-> agent_votes]

SetDb(d) ==
    /\ publications' = d.publications
    /\ publication_log' = d.publication_log
    /\ council_deliberations' = d.council_deliberations
    /\ agent_votes' = d.agent_votes

\* a connection in autocommit mode: every statement is committed at once
InTransactionAutocommit(committed, view) == view

(* sqlite3.connect with the default isolation level: an INSERT or UPDATE    *)
(* opens a transaction, and what it wrote stays private to the connection   *)
(* until conn.commit(); the file keeps the committed tables                 *)
InTransaction(committed, view) == committed

\* a commit that writes nothing
CommitNothing(committed, view) == committed

(* conn.commit(): the file takes the connection's view, all of it at once   *)
Commit(committed, view) == view

\* what the connection sees: its own uncommitted writes over the file
View(tx) == IF tx = NoValue THEN Db ELSE tx

\* the statements of run_deliberation and _save_deliberation that write
WriteSteps == {"update1", "log1", "commit1", "insert_row", "insert_vote", "commit2",
               "update2", "log2", "commit3"}

RunSteps == WriteSteps \cup {"select", "ask", "lastid"}

\* the part of the database a run_deliberation(pub) call is about
Concerned(d, pub) ==
    [publication |-> IF pub \in DOMAIN d.publications THEN d.publications[pub]
                     ELSE NoValue,
     log |-> d.publication_log[pub],
     council_deliberations |-> d.council_deliberations,
     agent_votes |-> d.agent_votes]

InitStore ==
    /\ StoreInit
    /\ wk = [w \in Workers |-> WorkerIdle]
    /\ calls = 0
    /\ dl = DeliberateIdle
    /\ cl = ClientIdle
    /\ sr = ReviewIdle
    /\ ws = WriterIdle
    /\ RestIdle
    /\ rn = [RunIdle EXCEPT !.pc = "idle"]

\* the process (restarted after a crash) calls run_deliberation(pub_id)
StCall ==
    /\ rn.pc \in {"idle", "returned", "failed", "crashed"}
    /\ calls < MaxCalls
    /\ calls' = calls + 1
    /\ \E id \in 1..MaxPubs, answers \in PanelScenarios :
          rn' = [RunIdle EXCEPT !.pc = "select", !.pub = id, !.answers = answers]
    /\ UNCHANGED <<store, wk, dl, cl, sr, ws, rest>>

(* lines 152-161: SELECT ... WHERE id = ? AND status = 'pending_review';    *)
(* before notes the stored state the call found                             *)
StSelect ==
    /\ rn.pc = "select"
    /\ LET id == rn.pub
           found == id \in DOMAIN publications
                    /\ publications[id].status = PENDING_REVIEW
       IN  rn' = IF found
                 THEN [rn EXCEPT !.pc = "update1", !.title = publications[id].title,
                                 !.content = publications[id].content,
                                 !.before = Concerned(Db, id)]
                 ELSE [rn EXCEPT !.pc = "returned",
                                 !.ret = [kind |-> "error",
                                          detail |-> "not found or not pending"]]
    /\ UNCHANGED <<store, wk, calls, dl, cl, sr, ws, rest>>

(* lines 164-167: UPDATE publications SET status = 'in_deliberation'        *)
StUpdate1 ==
    /\ rn.pc = "update1"
    /\ LET view == [View(rn.tx) EXCEPT
                       !.publications = SetStatus(@, rn.pub, IN_DELIBERATION)]
       IN  /\ rn' = [rn EXCEPT !.pc = "log1", !.tx = view]
           /\ SetDb(InTransaction(Db, view))
    /\ UNCHANGED <<now, discoveries, wk, calls, dl, cl, sr, ws, rest>>

(* lines 169-172: INSERT INTO publication_log ... 'deliberation_started'    *)
StLog1 ==
    /\ rn.pc = "log1"
    /\ LET view == [View(rn.tx) EXCEPT
                       !.publication_log =
                           LogInsert(@, LogEntry(rn.pub, "deliberation_started", NoNotes))]
       IN  /\ rn' = [rn EXCEPT !.pc = "commit1", !.tx = view]
           /\ SetDb(InTransaction(Db, view))
    /\ UNCHANGED <<now, discoveries, wk, calls, dl, cl, sr, ws, rest>>

(* lines 174-177: conn.commit(), conn.close()                               *)
StCommit1 ==
    /\ rn.pc = "commit1"
    /\ SetDb(Commit(Db, View(rn.tx)))
    /\ rn' = [rn EXCEPT !.pc = "ask", !.tx = NoValue, !.i = 1]
    /\ UNCHANGED <<now, discoveries, wk, calls, dl, cl, sr, ws, rest>>

(* agent_council.py lines 352-355: the reviewer call of the next role; an   *)
(* exception of the call leaves deliberate and run_deliberation             *)
StAsk ==
    /\ rn.pc = "ask"
    /\ LET vote == GetAgentOpinion(Panel[rn.i], rn.answers[Panel[rn.i]])
       IN  rn' = IF vote.raised
                 THEN [rn EXCEPT !.pc = "failed", !.at = "ask",
                                 !.ret = [kind |-> "exception", detail |-> "reviewer"]]
                 ELSE [rn EXCEPT !.votes = CollectVote(@, vote), !.i = @ + 1,
                                 !.pc = IF rn.i = Len(Panel) THEN "insert_row" ELSE "ask"]
    /\ UNCHANGED <<store, wk, calls, dl, cl, sr, ws, rest>>

(* agent_council.py lines 357-504: the decision of the votes, and the       *)
(* INSERT INTO council_deliberations of _save_deliberation                  *)
StInsertRow ==
    /\ rn.pc = "insert_row"
    /\ \E order \in ConsensusOrders(rn.votes) :
       LET decision == Decide(rn.votes, FALSE)
           consensus == GenerateConsensus(rn.votes, decision, order)
           v == View(rn.tx)
           view == [v EXCEPT !.council_deliberations =
                        Append(@, DeliberationRow(rn.title, rn.content, rn.votes,
                                                  decision, consensus, now))]
       IN  /\ rn' = [rn EXCEPT !.pc = "insert_vote", !.tx = view, !.k = 1,
                               !.final_decision = decision,
                               !.myrow = Len(v.council_deliberations) + 1]
           /\ SetDb(InTransaction(Db, view))
    /\ UNCHANGED <<now, discoveries, wk, calls, dl, cl, sr, ws, rest>>

(* agent_council.py lines 507-518: INSERT INTO agent_votes for the next     *)
(* vote of the decision                                                     *)
StInsertVote ==
    /\ rn.pc = "insert_vote"
    /\ LET view == [View(rn.tx) EXCEPT
                       !.agent_votes = Append(@, VoteRows(rn.myrow, rn.votes)[rn.k])]
       IN  /\ rn' = [rn EXCEPT !.tx = view, !.k = @ + 1,
                               !.pc = IF rn.k = Len(rn.votes) THEN "commit2"
                                      ELSE "insert_vote"]
           /\ SetDb(InTransaction(Db, view))
    /\ UNCHANGED <<now, discoveries, wk, calls, dl, cl, sr, ws, rest>>

(* agent_council.py lines 520-521: conn.commit(), conn.close()              *)
StCommit2 ==
    /\ rn.pc = "commit2"
    /\ SetDb(Commit(Db, View(rn.tx)))
    /\ rn' = [rn EXCEPT !.pc = "lastid", !.tx = NoValue]
    /\ UNCHANGED <<now, discoveries, wk, calls, dl, cl, sr, ws, rest>>

(* agent_council.py lines 398-399: _get_last_deliberation_id(topic)         *)
StLastId ==
    /\ rn.pc = "lastid"
    /\ \E id \in LastDeliberationIds(council_deliberations, rn.title) :
          rn' = [rn EXCEPT !.pc = "update2", !.delib_id = id]
    /\ UNCHANGED <<store, wk, calls, dl, cl, sr, ws, rest>>

(* lines 189-196: UPDATE publications SET status = ?, deliberation_id = ?   *)
StUpdate2 ==
    /\ rn.pc = "update2"
    /\ LET view == [View(rn.tx) EXCEPT
                       !.publications[rn.pub].status = StatusOf(rn.final_decision),
                       !.publications[rn.pub].deliberation_id = rn.delib_id]
       IN  /\ rn' = [rn EXCEPT !.pc = "log2", !.tx = view]
           /\ SetDb(InTransaction(Db, view))
    /\ UNCHANGED <<now, discoveries, wk, calls, dl, cl, sr, ws, rest>>

(* lines 198-202: INSERT INTO publication_log ... deliberation_complete     *)
StLog2 ==
    /\ rn.pc = "log2"
    /\ LET view == [View(rn.tx) EXCEPT
                       !.publication_log =
                           LogInsert(@, LogEntry(rn.pub, "deliberation_complete",
                                                 rn.final_decision))]
       IN  /\ rn' = [rn EXCEPT !.pc = "commit3", !.tx = view]
           /\ SetDb(InTransaction(Db, view))
    /\ UNCHANGED <<now, discoveries, wk, calls, dl, cl, sr, ws, rest>>

(* lines 204-216: conn.commit(), conn.close(), and the result returned      *)
StCommit3 ==
    /\ rn.pc = "commit3"
    /\ SetDb(Commit(Db, View(rn.tx)))
    /\ rn' = [rn EXCEPT !.pc = "returned", !.tx = NoValue,
                        !.ret = [kind |-> "ok", detail |-> rn.final_decision]]
    /\ UNCHANGED <<now, discoveries, wk, calls, dl, cl, sr, ws, rest>>

(* a write or a commit raises sqlite3.Error (locked database, full disk):   *)
(* the connection is closed without commit, lines 175-177 and 205-207, or   *)
(* dropped, which rolls its transaction back; the exception leaves          *)
(* run_deliberation                                                         *)
StFail ==
    /\ rn.pc \in WriteSteps
    /\ rn' = [rn EXCEPT !.pc = "failed", !.at = rn.pc, !.tx = NoValue,
                        !.ret = [kind |-> "exception", detail |-> "storage"]]
    /\ UNCHANGED <<store, wk, calls, dl, cl, sr, ws, rest>>

(* the process is killed: whatever its connection had not committed is gone *)
StCrash ==
    /\ rn.pc \in RunSteps
    /\ rn' = [rn EXCEPT !.pc = "crashed", !.at = rn.pc, !.tx = NoValue]
    /\ UNCHANGED <<store, wk, calls, dl, cl, sr, ws, rest>>

(* sqlite lets one connection write at a time: while the process holds an  *)
(* open write transaction no other connection commits a submission         *)
StSubmit ==
    /\ rn.tx = NoValue
    /\ SubmitForReview

NextStore ==
    \/ StSubmit
    \/ StCall
    \/ StSelect
    \/ StUpdate1
    \/ StLog1
    \/ StCommit1
    \/ StAsk
    \/ StInsertRow
    \/ StInsertVote
    \/ StCommit2
    \/ StLastId
    \/ StUpdate2
    \/ StLog2
    \/ StCommit3
    \/ StFail
    \/ StCrash

SpecStore == InitStore /\ [][NextStore]_vars

----------------------------------------------------------------------------
(* _publish_to_website step by step, with write errors and crashes         *)
(* (SpecFeed).  One process calls _publish_to_website.                      *)

(* The systems the scripts run on: several of them test sys.platform ==     *)
(* 'win32', security_monitor.py line 367 tests os.name != 'nt'.             *)
Platforms == {"posix", "nt"}

(* line 315, shutil.move: os.rename(src, dst) comes first.  With source and *)
(* destination in one directory it replaces the destination in one step on *)
(* POSIX; on Windows it raises FileExistsError when the destination exists, *)
(* and shutil.move then copies the source over the destination and unlinks  *)
(* the source.                                                              *)
RenameReplaces(platform, destination) == platform = "posix" \/ destination = <<>>

FeedSteps == {"load", "mkstemp", "dump", "move", "copy"}

InitFeed ==
    /\ StoreInit
    /\ wk = [w \in Workers |-> WorkerIdle]
    /\ calls = 0
    /\ dl = DeliberateIdle
    /\ cl = ClientIdle
    /\ sr = ReviewIdle
    /\ rn = RunIdle
    /\ RestIdle
    /\ \E platform \in Platforms :
          ws = [WriterIdle EXCEPT !.pc = "idle", !.platform = platform]

\* the process (restarted after a crash) calls _publish_to_website(pub_id, ...)
WsCall ==
    /\ ws.pc \in {"idle", "returned", "failed", "crashed"}
    /\ calls < MaxCalls
    /\ calls' = calls + 1
    /\ \E id \in 1..MaxPubs :
          \* a temp file a killed call left behind stays on the disk
          ws' = [WriterIdle EXCEPT !.pc = "load", !.pub = id, !.before = discoveries,
                                   !.temp = ws.temp, !.has_temp = ws.has_temp,
                                   !.platform = ws.platform]
    /\ UNCHANGED <<store, wk, dl, cl, sr, rn, rest>>

(* lines 281-304: the existing entries, and the new entry put in front      *)
WsLoad ==
    /\ ws.pc = "load"
    /\ ws' = [ws EXCEPT !.pc = "mkstemp",
                        !.doc = <<Entry(ws.pub)>> \o Load(discoveries)]
    /\ UNCHANGED <<store, wk, calls, dl, cl, sr, rn, rest>>

(* lines 307-310: mkstemp creates an empty file next to discoveries.json    *)
WsMkstemp ==
    /\ ws.pc = "mkstemp"
    /\ ws' = [ws EXCEPT !.pc = "dump", !.temp = <<>>, !.has_temp = TRUE, !.k = 1]
    /\ UNCHANGED <<store, wk, calls, dl, cl, sr, rn, rest>>

(* lines 312-313: json.dump writes the next piece of the document; the      *)
(* with block closes the file after the last one                            *)
WsDump ==
    /\ ws.pc = "dump"
    /\ LET pieces == Dump(ws.doc)
       IN  ws' = [ws EXCEPT !.k = IF ws.k = Len(pieces) THEN 1 ELSE @ + 1,
                            !.temp = SubSeq(pieces, 1, ws.k),
                            !.pc = IF ws.k = Len(pieces) THEN "move" ELSE "dump"]
    /\ UNCHANGED <<store, wk, calls, dl, cl, sr, rn, rest>>

(* lines 315 and 322: shutil.move.  When os.rename replaces the destination *)
(* the temp file becomes discoveries.json and the success result is         *)
(* returned; otherwise the copy of shutil.move begins                       *)
WsMove ==
    /\ ws.pc = "move"
    /\ IF RenameReplaces(ws.platform, discoveries)
       THEN /\ discoveries' = ws.temp
            /\ ws' = [ws EXCEPT !.pc = "returned", !.temp = <<>>, !.has_temp = FALSE,
                                !.ret = "success"]
       ELSE /\ discoveries' = discoveries
            /\ ws' = [ws EXCEPT !.pc = "copy", !.k = 1]
    /\ UNCHANGED <<now, publications, publication_log, council_deliberations,
                   agent_votes, wk, calls, dl, cl, sr, rn, rest>>

(* line 315, the copy inside shutil.move: the destination is opened for     *)
(* writing, which empties it, and takes the next piece of the temp file;    *)
(* after the last piece the temp file is unlinked and line 322 returns      *)
WsCopy ==
    /\ ws.pc = "copy"
    /\ discoveries' = SubSeq(ws.temp, 1, ws.k)
    /\ ws' = IF ws.k = Len(ws.temp)
             THEN [ws EXCEPT !.pc = "returned", !.temp = <<>>, !.has_temp = FALSE,
                             !.ret = "success"]
             ELSE [ws EXCEPT !.k = @ + 1]
    /\ UNCHANGED <<now, publications, publication_log, council_deliberations,
                   agent_votes, wk, calls, dl, cl, sr, rn, rest>>

(* lines 316-320: a write or the move raises (full disk, no permission):    *)
(* the temp file is removed and the exception raised again                  *)
WsWriteError ==
    /\ ws.pc \in {"dump", "move", "copy"}
    /\ ws' = [ws EXCEPT !.pc = "failed", !.at = ws.pc, !.temp = <<>>,
                        !.has_temp = FALSE, !.ret = "exception"]
    /\ UNCHANGED <<store, wk, calls, dl, cl, sr, rn, rest>>

(* the process is killed: the files stay as they are, a temp file included  *)
WsCrash ==
    /\ ws.pc \in FeedSteps
    /\ ws' = [ws EXCEPT !.pc = "crashed", !.at = ws.pc]
    /\ UNCHANGED <<store, wk, calls, dl, cl, sr, rn, rest>>

NextFeed ==
    WsCall \/ WsLoad \/ WsMkstemp \/ WsDump \/ WsMove \/ WsCopy \/ WsWriteError \/ WsCrash

SpecFeed == InitFeed /\ [][NextFeed]_vars


----------------------------------------------------------------------------
(* Properties of the reviewer client (SpecClient).                         *)

\* the response holds a JSON object whose approve member is the boolean true
ApprovesTrue(result) ==
    /\ result.kind = "content"
    /\ ~result.text.none
    /\ result.text.open >= 0
    /\ result.text.close >= result.text.open
    /\ result.text.body.valid
    /\ result.text.body.approve = [type |-> "bool", b |-> TRUE]

\* the response holds a JSON object whose approve member is the boolean false
ApprovesFalse(result) ==
    /\ result.kind = "content"
    /\ ~result.text.none
    /\ result.text.open >= 0
    /\ result.text.close >= result.text.open
    /\ result.text.body.valid
    /\ result.text.body.approve = [type |-> "bool", b |-> FALSE]

(* C1: whatever the generation call did, _get_agent_opinion returns a vote  *)
(* for the role and raises nothing; the vote approves only when the         *)
(* response holds a JSON object whose approve is the boolean true, and any  *)
(* failure gives approve = false with a diagnostic reasoning.               *)
C1_ConservativeDefault ==
    cl.pc = "done" =>
        /\ ~cl.vote.raised
        /\ cl.vote.agent = cl.role
        /\ cl.vote.approve <=> ApprovesTrue(cl.kimi.result)
        /\ (~ApprovesTrue(cl.kimi.result) /\ ~ApprovesFalse(cl.kimi.result))
              => cl.vote.reasoning \in {"Error", "PARSE ERROR"}

----------------------------------------------------------------------------
(* Properties of deliberate (SpecDeliberate).                              *)

\* deliberate returned a CouncilDecision
Decided == dl.pc \in {"lastid", "done"}

SecurityRejected(votes) ==
    \E i \in DOMAIN votes : votes[i].agent = SECURITY_GUARD /\ ~votes[i].approve

SecurityApproved(votes) ==
    \E i \in DOMAIN votes : votes[i].agent = SECURITY_GUARD /\ votes[i].approve

ApprovalCount(votes) == Cardinality({i \in DOMAIN votes : votes[i].approve})

(* C2: when the security_guard vote rejects, the decision returned and the  *)
(* decision stored are revise, in majority and in unanimous mode, whatever  *)
(* the other four votes are.                                                *)
C2_SecurityVeto ==
    (Decided /\ SecurityRejected(dl.decision.votes)) =>
        /\ dl.decision.final_decision = "revise"
        /\ council_deliberations[dl.decision.lastrowid].final_decision = "revise"

\* the veto overrides a majority: four approvals, the security_guard rejects
C2_Witness ==
    /\ Decided
    /\ ~dl.require_unanimous
    /\ SecurityRejected(dl.decision.votes)
    /\ ApprovalCount(dl.decision.votes) = 4
    /\ dl.decision.final_decision = "revise"

(* C3: a decision is made of exactly five votes, one per panel role in      *)
(* panel order; a reviewer whose call gave an error or an unusable response *)
(* has an approve = false vote in it, counted with the rejections; every    *)
(* stored row holds five votes, and a deliberation that an exception ended  *)
(* stored nothing.                                                          *)
C3_FiveVotes ==
    /\ Decided =>
          /\ Len(dl.decision.votes) = 5
          /\ \A i \in 1..5 :
                /\ dl.decision.votes[i].agent = Panel[i]
                /\ dl.decision.votes[i].approve <=> (dl.answers[Panel[i]] = RApprove)
                /\ dl.answers[Panel[i]] \in {RError, RProse}
                      => dl.decision.votes[i].reasoning \in {"Error", "PARSE ERROR"}
          /\ ApprovalCount(dl.decision.votes)
                = Cardinality({r \in Roles : dl.answers[r] = RApprove})
          /\ Len(council_deliberations) = 1
    /\ \A i \in DOMAIN council_deliberations :
          /\ Len(council_deliberations[i].votes) = 5
          /\ {council_deliberations[i].votes[j].agent : j \in 1..5} = Roles
          /\ council_deliberations[i].final_decision \in {"publish", "revise"}
    /\ dl.pc = "raised" => council_deliberations = <<>>

\* a decision in which two reviewers failed and three approved
C3_Witness ==
    /\ dl.pc = "done"
    /\ dl.answers["sociologist"] = RError
    /\ dl.answers["editor"] = RProse
    /\ ApprovalCount(dl.decision.votes) = 3
    /\ Len(council_deliberations) = 1

(* C8: when the security_guard vote approves, majority mode publishes       *)
(* exactly with three or more approvals of the five, unanimous mode exactly *)
(* with five.                                                               *)
C8_BaseRule ==
    (Decided /\ SecurityApproved(dl.decision.votes)) =>
        LET a == ApprovalCount(dl.decision.votes)
            publish == dl.decision.final_decision = "publish"
        IN  /\ dl.decision.final_decision \in {"publish", "revise"}
            /\ ~dl.require_unanimous => (publish <=> a >= 3)
            /\ dl.require_unanimous => (publish <=> a = 5)

\* the boundary of the majority: two approvals with the security_guard's
C8_Witness ==
    /\ Decided
    /\ ~dl.require_unanimous
    /\ SecurityApproved(dl.decision.votes)
    /\ ApprovalCount(dl.decision.votes) = 2
    /\ dl.decision.final_decision = "revise"


----------------------------------------------------------------------------
(* Properties of the coordinator (Spec).                                   *)

(* C4: the id deliberate_with_id hands to run_deliberation is the id of the *)
(* row that this call inserted.                                             *)
C4_ReturnsOwnRow ==
    \A w \in Workers : wk[w].pc = "rd_finish" => wk[w].delib_id = wk[w].myrow

\* publish(pub) found the record APPROVED and came to its safety check
PublishChecked(w) == wk[w].ret.op = "publish" /\ wk[w].ret.safety # "none"

(* C5: a publish whose safety check rejects leaves the record APPROVED,     *)
(* delivers nothing and returns an error result, not an exception.          *)
C5_RejectedPublishReturnsError ==
    \A w \in Workers :
        (PublishChecked(w) /\ wk[w].ret.safety = "reject") =>
            /\ wk[w].ret.kind = "error"
            /\ wk[w].ret.results = <<>>
            /\ publications[wk[w].ret.pub].status # PUBLISHED

AllowedEdges ==
    {<<PENDING_REVIEW, IN_DELIBERATION>>, <<IN_DELIBERATION, APPROVED>>,
     <<IN_DELIBERATION, REJECTED>>, <<APPROVED, PUBLISHED>>}

(* C6: a publication's status changes only along PENDING_REVIEW to          *)
(* IN_DELIBERATION, IN_DELIBERATION to APPROVED or REJECTED, and APPROVED   *)
(* to PUBLISHED; REJECTED and PUBLISHED are never left.                     *)
C6_StatusEdges ==
    [][\A i \in DOMAIN publications :
          publications'[i].status # publications[i].status
             => <<publications[i].status, publications'[i].status>> \in AllowedEdges]_vars

(* C7: publish for an id that does not exist or is not APPROVED returns the *)
(* error result at once: no safety check, no delivery, and the publication  *)
(* rows, the log and the feed stay as they were.                            *)
C7_PublishOnlyFromApproved ==
    [][\A w \in Workers :
          LET id == wk[w].pub
              approved == id \in DOMAIN publications
                          /\ publications[id].status = APPROVED
          IN  (wk[w].pc = "pb_select" /\ wk'[w].pc # "pb_select" /\ ~approved) =>
                  /\ wk'[w].ret.op = "publish"
                  /\ wk'[w].ret.pub = id
                  /\ wk'[w].ret.kind = "error"
                  /\ wk'[w].ret.detail = "not approved or not found"
                  /\ wk'[w].ret.safety = "none"
                  /\ wk'[w].pc # "pb_check"
                  /\ publications' = publications
                  /\ publication_log' = publication_log
                  /\ discoveries' = discoveries]_vars

\* publish was refused for a record that exists and is REJECTED
C7_Witness ==
    \E w \in Workers :
        /\ wk[w].ret.op = "publish"
        /\ wk[w].ret.detail = "not approved or not found"
        /\ wk[w].ret.pub \in DOMAIN publications
        /\ publications[wk[w].ret.pub].status = REJECTED

(* C9: once the safety check passes, publish attempts every requested       *)
(* target and returns a result map with an entry for each of them.          *)
C9_EveryTargetAttempted ==
    \A w \in Workers :
        (PublishChecked(w) /\ wk[w].ret.safety = "approve") =>
            /\ wk[w].ret.kind = "ok"
            /\ {wk[w].ret.results[i].target : i \in DOMAIN wk[w].ret.results}
                  = {publications[wk[w].ret.pub].targets[i] :
                        i \in DOMAIN publications[wk[w].ret.pub].targets}

\* the log of publication i holds a published entry with an outcome for
\* every requested target
PublishedLogged(i) ==
    \E k \in DOMAIN publication_log[i] :
        /\ publication_log[i][k].action = "published"
        /\ {publication_log[i][k].notes[j].target :
                j \in DOMAIN publication_log[i][k].notes}
              = {publications[i].targets[j] : j \in DOMAIN publications[i].targets}

(* C10: a publish on an APPROVED record whose safety check passes leaves    *)
(* the record PUBLISHED, and every PUBLISHED record has a published log     *)
(* entry holding an outcome for every requested target.                     *)
C10_PublishedWithLog ==
    /\ \A w \in Workers :
          (PublishChecked(w) /\ wk[w].ret.safety = "approve") =>
              publications[wk[w].ret.pub].status = PUBLISHED
    /\ \A i \in DOMAIN publications :
          publications[i].status = PUBLISHED => PublishedLogged(i)

----------------------------------------------------------------------------
(* Properties of screening and smart_review (SpecReview).                  *)

\* screen_finding has returned
Screened == sr.pc \in {"screened", "auto", "council", "done", "raised"}

\* the words that hold a controversial keyword
RiskWords == {"first", "warning", "398 attacks"}

\* the submission gives cause for at least one risk flag
HasRisk(topic, content) ==
    \/ (topic \cup content.words) \cap RiskWords # {}
    \/ content.mentions >= 3
    \/ content.words \cap ClaimWords # {}
    \/ content.long

\* the place of a flag in the order of detection
DetectionRank(flag) ==
    CASE flag.kind = "keyword" ->
             CHOOSE i \in DOMAIN CONTROVERSIAL_KEYWORDS :
                 CONTROVERSIAL_KEYWORDS[i] = flag.keyword
      [] flag.kind = "agent_mentions" -> Len(CONTROVERSIAL_KEYWORDS) + 1
      [] flag.kind = "quantified_claims" -> Len(CONTROVERSIAL_KEYWORDS) + 2
      [] OTHER -> Len(CONTROVERSIAL_KEYWORDS) + 3

(* C15: screen_finding returns needs_review exactly when at least one risk  *)
(* flag was raised; the flags are listed in detection order; with three or  *)
(* more flags the reason names the first three, with one or two the first;  *)
(* with none it returns auto_approve with no flags, whatever the routine    *)
(* keyword count is.                                                        *)
C15_ScreeningTable ==
    Screened =>
        LET s == sr.screened
            flags == s.risk_flags
            risky == HasRisk(sr.topic, sr.content)
        IN  /\ s.auto_decision \in {"needs_review", "auto_approve"}
            /\ (s.auto_decision = "needs_review") <=> risky
            /\ s.needs_council <=> risky
            /\ risky <=> (Len(flags) >= 1)
            /\ \A i, j \in DOMAIN flags :
                  i < j => DetectionRank(flags[i]) < DetectionRank(flags[j])
            /\ Len(flags) >= 3 =>
                  /\ s.reason.text = "Multiple risk flags detected"
                  /\ s.reason.flags = <<flags[1], flags[2], flags[3]>>
            /\ Len(flags) \in {1, 2} =>
                  /\ s.reason.text = "Potential sensitive content"
                  /\ s.reason.flags = <<flags[1]>>
            /\ ~risky =>
                  /\ s.auto_decision = "auto_approve"
                  /\ flags = <<>>
                  /\ s.reason.flags = <<>>
                  /\ s.reason.text =
                        IF RoutineCount(sr.topic, sr.content) >= 2
                        THEN "Routine metrics/statistics - auto-approved"
                        ELSE "Standard observation - auto-approved"

\* more than three flags on a text that also holds two routine keywords
C15_Witness ==
    /\ Screened
    /\ Len(sr.screened.risk_flags) >= 4
    /\ RoutineCount(sr.topic, sr.content) >= 2
    /\ sr.screened.auto_decision = "needs_review"
    /\ Len(sr.screened.reason.flags) = 3

\* the call is not forced and screening alone auto-approves
AutoPath == Screened /\ ~sr.force_council /\ sr.screened.auto_decision = "auto_approve"

(* C16: when screening returns auto_approve and review is not forced,       *)
(* smart_review asks no reviewer; the decision it returns has five          *)
(* synthetic approve votes, one per panel role, final_decision publish and  *)
(* a summary that starts with AUTO-APPROVED; exactly one deliberation row   *)
(* is stored for it, with the five vote rows.                               *)
C16_AutoApprove ==
    /\ (AutoPath /\ sr.pc # "screened") => sr.pc \in {"auto", "done"}
    /\ AutoPath => sr.reviewer_calls = 0
    /\ (AutoPath /\ sr.pc = "done") =>
          /\ Len(sr.decision.votes) = 5
          /\ \A i \in 1..5 :
                /\ sr.decision.votes[i].agent = Panel[i]
                /\ sr.decision.votes[i].approve
                /\ sr.decision.votes[i].reasoning.prefix = "Auto-approved"
          /\ sr.decision.final_decision = "publish"
          /\ Head(sr.decision.consensus_summary) = "AUTO-APPROVED:"
          /\ Len(council_deliberations) = 1
          /\ council_deliberations[1].topic = sr.topic
          /\ council_deliberations[1].content = sr.content
          /\ council_deliberations[1].votes = sr.decision.votes
          /\ council_deliberations[1].final_decision = "publish"
          /\ council_deliberations[1].consensus_summary
                = <<"[AUTO]">> \o sr.decision.consensus_summary
          /\ Len(agent_votes) = 5
          /\ \A i \in 1..5 :
                agent_votes[i] = [deliberation_id |-> 1, agent_role |-> Panel[i],
                                  approve |-> TRUE]

\* an auto-approved call returned although a reviewer would have raised
C16_Witness ==
    /\ AutoPath
    /\ sr.pc = "done"
    /\ sr.answers["sociologist"] = RRaise
    /\ RoutineCount(sr.topic, sr.content) < 2
    /\ Len(council_deliberations) = 1

(* C17: with the force flag set, smart_review carries a needs_review        *)
(* screening result and asks the panel, also for content that screening     *)
(* alone auto-approves: a forced call that returns has asked all five       *)
(* reviewers and returns their decision, one that a reviewer's exception    *)
(* ends stores nothing; no forced call takes the synthetic auto-approve     *)
(* path.                                                                    *)
C17_ForcedReview ==
    (sr.force_council /\ sr.pc \in {"auto", "council", "done", "raised"}) =>
        /\ sr.pc # "auto"
        /\ sr.screening.auto_decision = "needs_review"
        /\ sr.screening.needs_council
        /\ sr.pc = "done" =>
              /\ sr.reviewer_calls = 5
              /\ Len(sr.decision.votes) = 5
              /\ \A i \in 1..5 :
                    /\ sr.decision.votes[i].agent = Panel[i]
                    /\ sr.decision.votes[i].approve <=> (sr.answers[Panel[i]] = RApprove)
                    /\ sr.decision.votes[i].reasoning \in {"model", "Error", "PARSE ERROR"}
              /\ Head(sr.decision.consensus_summary) = "Decision:"
              /\ Len(council_deliberations) = 1
              /\ Head(council_deliberations[1].consensus_summary) = "Decision:"
              /\ council_deliberations[1].votes = sr.decision.votes
        /\ sr.pc = "raised" =>
              /\ sr.reviewer_calls \in 1..5
              /\ council_deliberations = <<>>

\* a forced call on content that screening auto-approves, decided by the panel
C17_Witness ==
    /\ sr.force_council
    /\ sr.pc = "done"
    /\ sr.screened.auto_decision = "auto_approve"
    /\ sr.reviewer_calls = 5
    /\ sr.decision.final_decision = "revise"

----------------------------------------------------------------------------
(* Further properties of the coordinator (Spec) and the client (SpecClient). *)

(* C11: a publication that run_deliberation has completed is APPROVED       *)
(* exactly when the deliberation its deliberation_id refers to decided      *)
(* publish, REJECTED otherwise, and that deliberation is the one run on the *)
(* publication's own title and content.                                     *)
C11_DecisionOfOwnDeliberation ==
    \A i \in DOMAIN publications :
        publications[i].status \in {APPROVED, REJECTED} =>
            /\ publications[i].deliberation_id \in DOMAIN council_deliberations
            /\ LET d == council_deliberations[publications[i].deliberation_id]
               IN  /\ d.topic = publications[i].title
                   /\ d.content = publications[i].content
                   /\ (publications[i].status = APPROVED) <=> (d.final_decision = "publish")

(* security_monitor.py lines 394-397: the rows the audit reports            *)
CheckUnauthorizedPublications ==
    {i \in DOMAIN publications :
        publications[i].status = PUBLISHED /\ publications[i].deliberation_id = 0}

(* C19: no publication is PUBLISHED with a null deliberation_id, so the     *)
(* audit of check_unauthorized_publications reports nothing: every record   *)
(* that run_deliberation has decided, and so every record publish can       *)
(* select, refers to a stored deliberation.                                 *)
C19_NoUnreviewedPublication ==
    /\ CheckUnauthorizedPublications = {}
    /\ \A i \in DOMAIN publications :
          publications[i].status \in {APPROVED, REJECTED, PUBLISHED} =>
              /\ publications[i].deliberation_id # 0
              /\ publications[i].deliberation_id \in DOMAIN council_deliberations

\* publish selected an APPROVED record, which refers to its deliberation
C19_Witness ==
    \E w \in Workers :
        /\ PublishChecked(w)
        /\ publications[wk[w].ret.pub].status = APPROVED
        /\ publications[wk[w].ret.pub].deliberation_id \in DOMAIN council_deliberations

(* C20: a reviewer call issues exactly one request to the generation        *)
(* service, whatever the outcome of the request.                            *)
C20_OneRequestPerRole ==
    cl.pc = "done" => cl.kimi.requests = 1

----------------------------------------------------------------------------
(* Properties of run_deliberation under failures (SpecStore).              *)

\* the agent_votes rows of deliberation id
VotesOf(id) == {k \in DOMAIN agent_votes : agent_votes[k].deliberation_id = id}

\* the process died, or a write failed, at step pc
StoppedAt(pc) == rn.pc \in {"crashed", "failed"} /\ rn.at = pc

(* C12: at every point, also after a crash or an exception at any step of   *)
(* deliberate or _save_deliberation, every stored deliberation row has a    *)
(* final_decision and five vote rows, one per panel role: the row and its   *)
(* votes are committed together after aggregation, or nothing is written.   *)
C12_DeliberationCommittedWhole ==
    /\ \A id \in DOMAIN council_deliberations :
          /\ council_deliberations[id].final_decision \in {"publish", "revise"}
          /\ Len(council_deliberations[id].votes) = 5
          /\ Cardinality(VotesOf(id)) = 5
          /\ {agent_votes[k].agent_role : k \in VotesOf(id)} = Roles
    /\ \A k \in DOMAIN agent_votes :
          agent_votes[k].deliberation_id \in DOMAIN council_deliberations
    /\ (StoppedAt("ask") \/ StoppedAt("insert_row") \/ StoppedAt("insert_vote")
        \/ StoppedAt("commit2")) =>
          /\ council_deliberations = rn.before.council_deliberations
          /\ agent_votes = rn.before.agent_votes

\* the process was killed after the row and three of the votes were inserted
C12_Witness ==
    /\ rn.pc = "crashed"
    /\ rn.at = "insert_vote"
    /\ rn.k = 4
    /\ council_deliberations = <<>>
    /\ agent_votes = <<>>

(* C13: when a database write or commit of run_deliberation, or of the      *)
(* deliberation it runs, fails, the caller gets the failure and the stored  *)
(* publication and deliberation state is the state before the call.         *)
C13_StorageFailureLeavesNoTrace ==
    (rn.pc = "failed" /\ rn.ret.detail = "storage") =>
        /\ rn.ret.kind = "exception"
        /\ Concerned(Db, rn.pub) = rn.before

----------------------------------------------------------------------------
(* Properties of the website feed (SpecFeed).                              *)

\* what a reader of discoveries.json may find: no file yet, or a whole document
Readable(file) == file = <<>> \/ Complete(file)

\* the document _publish_to_website is to leave: the new entry, then the old ones
NewContent == Dump(<<Entry(ws.pub)>> \o Load(ws.before))

(* C18: at every step of _publish_to_website, and after a crash at any of   *)
(* them, discoveries.json holds its whole previous content or the whole new *)
(* content, the new entry followed by all previous entries; it never holds  *)
(* a truncated or mixed document; after the call returned it holds the new  *)
(* content.                                                                 *)
C18_FeedReplacedAtomically ==
    /\ Readable(discoveries)
    /\ ws.pc \in FeedSteps \cup {"crashed", "failed", "returned"} =>
          /\ discoveries \in {ws.before, NewContent}
          /\ ws.pc \in {"crashed", "failed"} /\ ws.at \in {"load", "mkstemp", "dump"}
                => discoveries = ws.before
          /\ ws.pc = "returned" => discoveries = NewContent

\* the same on a POSIX system alone, where os.rename replaces the file
C18_PosixFeedReplacedAtomically ==
    ws.platform = "posix" => C18_FeedReplacedAtomically

----------------------------------------------------------------------------
(* Properties of the deliberation store as the council and the coordinator *)
(* write it.                                                               *)

\* rows is what it was, with more rows added behind
Extends(after, rows) ==
    /\ Len(after) >= Len(rows)
    /\ SubSeq(after, 1, Len(rows)) = rows

\* the vote rows recorded for the votes of deliberation row id
RecordsVotes(added, id, votes) ==
    /\ Len(added) = Len(votes)
    /\ \A i \in DOMAIN added :
          /\ added[i].deliberation_id = id
          /\ added[i].agent_role = votes[i].agent
          /\ added[i].approve = votes[i].approve

(* C21: the audit store is append-only for deliberations.  No step deletes *)
(* a council_deliberations or agent_votes row or changes a field of an     *)
(* existing one; a step that writes the tables adds exactly one            *)
(* deliberation row, and with it the vote rows of that row's votes.        *)
C21_AppendOnly ==
    [][/\ Extends(council_deliberations', council_deliberations)
       /\ Extends(agent_votes', agent_votes)
       /\ Len(council_deliberations') <= Len(council_deliberations) + 1
       /\ IF Len(council_deliberations') = Len(council_deliberations)
          THEN agent_votes' = agent_votes
          ELSE LET id == Len(council_deliberations')
               IN  RecordsVotes(SubSeq(agent_votes', Len(agent_votes) + 1,
                                       Len(agent_votes')),
                                id, council_deliberations'[id].votes)]_vars

\* a second review has added its row and votes behind those of the first
C21_Witness ==
    /\ Len(council_deliberations) = 2
    /\ Len(agent_votes) = 2 * Len(Panel)
    /\ council_deliberations[1].topic = council_deliberations[2].topic

----------------------------------------------------------------------------
(* agent_council.py lines 357-376: the decision of five votes and its      *)
(* consensus summary (SpecConsensus).                                      *)

\* how the five reviewers may have voted
ApprovePatterns ==
    {[r \in Roles |-> TRUE],
     [r \in Roles |-> r # SECURITY_GUARD],
     [r \in Roles |-> r \in {SECURITY_GUARD, "editor"}]}

\* the concerns a reviewer may name: none, one of its own, or its own and one
\* that others name too; the editor may also answer with a number in the list
ConcernsOf(r) ==
    {<<Str(r), Str("shared")>>}
    \cup (IF r \in {"project_manager", SECURITY_GUARD} THEN {<<>>}
          ELSE {<<>>, <<Str(r)>>})
    \cup (IF r = "editor" THEN {<<NotStr("number", "7")>>} ELSE {})

\* the suggestions of the panel: none, the same one from everybody, or more
\* than SummaryCap from one reviewer
SuggestionPatterns ==
    {[r \in Roles |-> <<>>],
     [r \in Roles |-> <<Str("s1")>>],
     [r \in Roles |-> IF r = "project_manager"
                      THEN <<Str("s1"), Str("s2"), Str("s3"), Str("s4"), Str("s5"),
                             Str("s6"), Str("s1")>>
                      ELSE <<>>]}

PanelVotes ==
    {[i \in 1..Len(Panel) |->
         Vote(Panel[i], a[Panel[i]], "model", c[Panel[i]], s[Panel[i]])] :
       a \in ApprovePatterns,
       c \in {f \in [Roles -> UNION {ConcernsOf(r) : r \in Roles}] :
                 \A r \in Roles : f[r] \in ConcernsOf(r)},
       s \in SuggestionPatterns}

InitConsensus ==
    /\ StoreInit
    /\ wk = [w \in Workers |-> WorkerIdle]
    /\ calls = 0
    /\ dl = DeliberateIdle
    /\ cl = ClientIdle
    /\ sr = ReviewIdle
    /\ rn = RunIdle
    /\ ws = WriterIdle
    /\ fw = <<>>
    /\ gd = GuardianIdle
    /\ \E votes \in PanelVotes, unanimous \in BOOLEAN :
          /\ Cardinality(AllItems(votes, "concerns")) <= 2
             \/ Cardinality(AllItems(votes, "suggestions")) <= 1
          /\ gc = [ConsensusIdle EXCEPT !.pc = "decide", !.votes = votes,
                                        !.require_unanimous = unanimous]

(* lines 357-371: the decision of the votes, the veto applied               *)
GcDecide ==
    /\ gc.pc = "decide"
    /\ gc' = [gc EXCEPT !.pc = "summarise",
                        !.decision = Decide(gc.votes, gc.require_unanimous)]
    /\ UNCHANGED <<store, wk, calls, dl, cl, sr, rn, ws, fw, gd>>

(* line 374: consensus = self._generate_consensus(votes, decision)          *)
GcSummarise ==
    /\ gc.pc = "summarise"
    /\ \E order \in ConsensusOrders(gc.votes) :
          gc' = IF ConsensusRaises(gc.votes)
                THEN [gc EXCEPT !.pc = "raised"]
                ELSE [gc EXCEPT !.pc = "done",
                                !.summary = GenerateConsensus(gc.votes, gc.decision,
                                                              order)]
    /\ UNCHANGED <<store, wk, calls, dl, cl, sr, rn, ws, fw, gd>>

NextConsensus == GcDecide \/ GcSummarise

SpecConsensus == InitConsensus /\ [][NextConsensus]_vars

----------------------------------------------------------------------------
(* Properties of the consensus summary (SpecConsensus).                    *)

\* the parts of a summary that follow the decision
PartsOf(summary) == {summary[k] : k \in 3..Len(summary)}

\* what a summary lists under a heading
ListedUnder(summary, heading) ==
    {Tail(part) : part \in {p \in PartsOf(summary) : Head(p) = heading}}

\* a list of at most five entries, no entry twice, each an element of the
\* votes' field
WellListed(list, votes, field) ==
    /\ Len(list) <= 5
    /\ \A i, j \in DOMAIN list : i # j => list[i] # list[j]
    /\ \A i \in DOMAIN list :
          \E v \in DOMAIN votes : \E k \in DOMAIN votes[v][field] :
              votes[v][field][k].v = list[i]

\* the decision deliberate reaches on the votes, veto included
FinalDecisionOf(votes, require_unanimous) ==
    LET approvals == Cardinality({i \in DOMAIN votes : votes[i].approve})
        security == {i \in DOMAIN votes : votes[i].agent = SECURITY_GUARD}
    IN  IF \E i \in security : ~votes[i].approve
        THEN "REVISE"
        ELSE IF require_unanimous /\ approvals = Len(votes) THEN "PUBLISH"
        ELSE IF ~require_unanimous /\ 2 * approvals > Len(votes) THEN "PUBLISH"
        ELSE "REVISE"

(* C22: the consensus summary begins with "Decision: " and the upper-cased *)
(* final decision (the one after the veto), has for each of the five votes *)
(* a line with the role and approved or rejected as the vote says, and     *)
(* lists at most five concerns and at most five suggestions, each list     *)
(* without duplicates and made of entries of the votes.                    *)
C22_ConsensusSummary ==
    gc.pc = "done" =>
       /\ Len(gc.summary) >= 2 + Len(gc.votes)
       /\ gc.summary[1] = "Decision:"
       /\ gc.summary[2] = FinalDecisionOf(gc.votes, gc.require_unanimous)
       /\ Len(gc.votes) = Len(Panel)
       /\ \A i \in DOMAIN gc.votes :
             <<gc.votes[i].agent, IF gc.votes[i].approve THEN "approved" ELSE "rejected">>
                \in PartsOf(gc.summary)
       /\ \A i \in DOMAIN gc.votes :
             <<gc.votes[i].agent, IF gc.votes[i].approve THEN "rejected" ELSE "approved">>
                \notin PartsOf(gc.summary)
       /\ Cardinality({k \in 3..Len(gc.summary) : Head(gc.summary[k]) = "Key concerns:"}) <= 1
       /\ Cardinality({k \in 3..Len(gc.summary) : Head(gc.summary[k]) = "Suggestions:"}) <= 1
       /\ \A list \in ListedUnder(gc.summary, "Key concerns:") :
             WellListed(list, gc.votes, "concerns")
       /\ \A list \in ListedUnder(gc.summary, "Suggestions:") :
             WellListed(list, gc.votes, "suggestions")

\* a summary of votes that name more than five concerns, some of them twice,
\* where the veto turned a majority of approvals into REVISE
C22_Witness ==
    /\ gc.pc = "done"
    /\ Cardinality(AllItems(gc.votes, "concerns")) > 5
    /\ Cardinality({i \in DOMAIN gc.votes : gc.votes[i].approve}) = 4
    /\ gc.summary[2] = "REVISE"
    /\ \E list \in ListedUnder(gc.summary, "Key concerns:") : Len(list) = 5

\* a summary of votes with more than five suggestions
C22_WitnessSuggestions ==
    /\ gc.pc = "done"
    /\ Cardinality(AllItems(gc.votes, "suggestions")) > 5
    /\ \E list \in ListedUnder(gc.summary, "Suggestions:") : Len(list) = 5

----------------------------------------------------------------------------
(* Properties of call_kimi's retry loop (SpecClient).                      *)

\* call_kimi has left its loop
KimiLeft == cl.has_key /\ cl.pc \in {"returned", "done"}

\* what holds of the loop whichever way it is left
RetryBounds ==
    /\ cl.kimi.requests <= max_retries
    /\ cl.pc = "attempt" =>
          /\ cl.kimi.attempt < max_retries
          /\ cl.kimi.requests = cl.kimi.attempt
          /\ cl.kimi.sleeps = cl.kimi.attempt
    /\ KimiLeft =>
          /\ cl.kimi.requests >= 1
          \* a wait between two attempts, none after the last
          /\ cl.kimi.sleeps = cl.kimi.requests - 1
          \* no request follows a success or a 400, 401, 403, 404 response
          /\ cl.kimi.result.kind = "content" => cl.kimi.response = 200
          /\ (cl.kimi.result.kind = "error" /\ cl.kimi.result.diag = "after retries") =>
                /\ cl.kimi.requests = max_retries
                /\ cl.kimi.response \notin NoRetryStatus
                /\ cl.kimi.last_error \in {"Request timeout (120s)", "Network error"}

(* C23: call_kimi makes at most max_retries requests and terminates with a *)
(* result; a timeout or a network error is followed by another attempt     *)
(* while attempts remain, a success or a 400, 401, 403, 404 response by    *)
(* none; it waits between attempts and not after the last; when every      *)
(* attempt failed it returns an error result naming the last error.        *)
C23_RetryPolicy ==
    /\ RetryBounds
    /\ KimiLeft =>
          \* the call ends in a result, not an exception
          /\ cl.kimi.result.kind \in {"content", "error"}
          \* a timeout or network error with attempts left is retried
          /\ (cl.kimi.last_error # "None" /\ cl.kimi.requests < max_retries) =>
                \/ cl.kimi.result.kind = "content"
                \/ cl.kimi.response \in NoRetryStatus
                \/ cl.kimi.result.diag = "exception"

\* the same for calls that do not end in the UnboundLocalError of the
\* RequestException handler
C23_RetryPolicyWhenBound ==
    /\ RetryBounds
    /\ (KimiLeft /\ cl.kimi.result.kind # "raise"
           /\ cl.kimi.last_error # "None" /\ cl.kimi.requests < max_retries) =>
                \/ cl.kimi.result.kind = "content"
                \/ cl.kimi.response \in NoRetryStatus
                \/ cl.kimi.result.diag = "exception"

----------------------------------------------------------------------------
(* Properties of concurrent coordinator calls (Spec).                      *)

\* the run_deliberation calls that passed the PENDING_REVIEW check for id:
\* each of them wrote a deliberation_started entry
StartedFor(id) ==
    {k \in DOMAIN publication_log[id] :
        publication_log[id][k].action = "deliberation_started"}

\* the deliberation rows made for publication id (every submission carries
\* a text of its own)
RowsFor(id) ==
    {r \in DOMAIN council_deliberations :
        council_deliberations[r].content = publications[id].content}

(* C24: a publication is deliberated at most once.  However many           *)
(* run_deliberation calls are made for an id, one after another or at the  *)
(* same time, at most one passes the PENDING_REVIEW check and asks the     *)
(* reviewers, and at most one deliberation row is made for the             *)
(* publication.                                                            *)
C24_DeliberatedOnce ==
    \A id \in DOMAIN publications :
        /\ Cardinality(StartedFor(id)) <= 1
        /\ Cardinality(RowsFor(id)) <= 1

\* the 'published' log entries of publication id
PublishedEntries(id) ==
    {k \in DOMAIN publication_log[id] : publication_log[id][k].action = "published"}

\* the entries the website feed holds for publication id
FeedEntries(id) == {k \in DOMAIN discoveries : discoveries[k] = Entry(id)}

----------------------------------------------------------------------------
(* Progress of the queue (SpecQueue).                                      *)

(* C26: no publication stays IN_DELIBERATION for ever.  When every         *)
(* reviewer call returns or fails and process_queue keeps running, a       *)
(* publication that is IN_DELIBERATION is APPROVED or REJECTED later on,   *)
(* also when its deliberation ended with an exception.                     *)
C26_DeliberationEnds ==
    \A id \in 1..MaxPubs :
        (id \in DOMAIN publications /\ publications[id].status = IN_DELIBERATION)
           ~> (id \in DOMAIN publications
               /\ publications[id].status \in {APPROVED, REJECTED})

\* a publication is IN_DELIBERATION and no call is deliberating it
Abandoned(id) ==
    /\ id \in DOMAIN publications
    /\ publications[id].status = IN_DELIBERATION
    /\ \A w \in Workers :
          ~(wk[w].pub = id
            /\ wk[w].pc \in {"rd_mark", "rd_deliberate", "rd_lastid", "rd_finish"})

\* an abandoned publication stays as it is whatever is called afterwards
C26_AbandonedForEver ==
    [][\A id \in 1..MaxPubs : Abandoned(id) => Abandoned(id)']_vars

\* no publication is ever abandoned
C26_NeverAbandoned == \A id \in 1..MaxPubs : ~Abandoned(id)

----------------------------------------------------------------------------
(* Concurrent _publish_to_website calls (SpecWriters): several processes   *)
(* call it on one discoveries.json; each read, each write of a temp file   *)
(* and each move is a step.                                                *)

Writers == {"p1", "p2"}

\* an entry the feed holds before any call
OldEntry == Entry(0)

FeedWriterIdle ==
    [pc |-> "idle", pub |-> 0, doc |-> <<>>, temp |-> <<>>, k |-> 0, ok |-> <<>>,
     failed |-> 0]

(* a write of one piece at offset k of a file another process may have      *)
(* truncated meanwhile: the gap, if any, reads as zero bytes                *)
WriteAt(file, k, piece) ==
    IF k <= Len(file)
    THEN [file EXCEPT ![k] = piece]
    ELSE file \o [i \in 1..(k - Len(file) - 1) |-> Piece("hole", 0)] \o <<piece>>

InitWriters ==
    /\ now = 0
    /\ publications = <<>>
    /\ publication_log = [i \in 1..MaxPubs |-> <<>>]
    /\ council_deliberations = <<>>
    /\ agent_votes = <<>>
    /\ discoveries \in {<<>>, Dump(<<OldEntry>>)}
    /\ wk = [w \in Workers |-> WorkerIdle]
    /\ calls = 0
    /\ dl = DeliberateIdle
    /\ cl = ClientIdle
    /\ sr = ReviewIdle
    /\ rn = RunIdle
    /\ gc = ConsensusIdle
    /\ gd = GuardianIdle
    /\ \E platform \in Platforms : ws = [WriterIdle EXCEPT !.platform = platform]
    /\ fw = [p \in Writers |-> FeedWriterIdle]

\* process p calls _publish_to_website(pub_id, ...)
FwCall(p) ==
    /\ fw[p].pc = "idle"
    /\ calls < MaxCalls
    /\ calls' = calls + 1
    /\ \E id \in 1..MaxPubs :
          fw' = [fw EXCEPT ![p].pc = "load", ![p].pub = id]
    /\ UNCHANGED <<store, wk, dl, cl, sr, rn, ws, gc, gd>>

(* lines 281-304: the existing entries read, the new entry put in front;    *)
(* json.load raises on a file that holds no whole document                  *)
FwLoad(p) ==
    /\ fw[p].pc = "load"
    /\ fw' = IF Readable(discoveries)
             THEN [fw EXCEPT ![p].pc = "dump",
                             ![p].doc = <<Entry(fw[p].pub)>> \o Load(discoveries)]
             ELSE [fw EXCEPT ![p].pc = "idle", ![p].failed = @ + 1]
    /\ UNCHANGED <<store, wk, calls, dl, cl, sr, rn, ws, gc, gd>>

(* lines 307-313: the temp file of this call, made by mkstemp and written   *)
(* by json.dump; no other call sees it                                      *)
FwDump(p) ==
    /\ fw[p].pc = "dump"
    /\ fw' = [fw EXCEPT ![p].pc = "move", ![p].temp = Dump(fw[p].doc)]
    /\ UNCHANGED <<store, wk, calls, dl, cl, sr, rn, ws, gc, gd>>

(* lines 315 and 322: shutil.move; os.rename puts the temp file in place of *)
(* discoveries.json, or the copy of shutil.move begins                      *)
FwMove(p) ==
    /\ fw[p].pc = "move"
    /\ IF RenameReplaces(ws.platform, discoveries)
       THEN /\ discoveries' = fw[p].temp
            /\ fw' = [fw EXCEPT ![p].pc = "idle", ![p].temp = <<>>,
                                ![p].ok = Append(@, fw[p].pub)]
       ELSE /\ discoveries' = discoveries
            /\ fw' = [fw EXCEPT ![p].pc = "copy", ![p].k = 1]
    /\ UNCHANGED <<now, publications, publication_log, council_deliberations,
                   agent_votes, wk, calls, dl, cl, sr, rn, ws, gc, gd>>

(* line 315, the copy inside shutil.move: opening the destination for       *)
(* writing empties it; each piece of the temp file is written at this       *)
(* call's own offset; after the last the temp file is unlinked              *)
FwCopy(p) ==
    /\ fw[p].pc = "copy"
    /\ discoveries' = WriteAt(IF fw[p].k = 1 THEN <<>> ELSE discoveries, fw[p].k,
                              fw[p].temp[fw[p].k])
    /\ fw' = IF fw[p].k = Len(fw[p].temp)
             THEN [fw EXCEPT ![p].pc = "idle", ![p].temp = <<>>, ![p].k = 0,
                             ![p].ok = Append(@, fw[p].pub)]
             ELSE [fw EXCEPT ![p].k = @ + 1]
    /\ UNCHANGED <<now, publications, publication_log, council_deliberations,
                   agent_votes, wk, calls, dl, cl, sr, rn, ws, gc, gd>>

NextWriters ==
    \/ \E p \in Writers : FwCall(p)
    \/ \E p \in Writers : FwLoad(p)
    \/ \E p \in Writers : FwDump(p)
    \/ \E p \in Writers : FwMove(p)
    \/ \E p \in Writers : FwCopy(p)

SpecWriters == InitWriters /\ [][NextWriters]_vars

----------------------------------------------------------------------------
(* Properties of concurrent feed writers (SpecWriters).                    *)

\* the calls for publication id that returned the success result
CompletedFor(id) ==
    {<<p, k>> \in Writers \X (1..MaxCalls) :
        k \in DOMAIN fw[p].ok /\ fw[p].ok[k] = id}

\* the entries discoveries.json holds for publication id
FeedHolds(id) == {k \in DOMAIN discoveries : discoveries[k] = Entry(id)}

\* no call is under way
WritersQuiet == \A p \in Writers : fw[p].pc = "idle"

(* C27: no update of the website feed is lost.  When the                   *)
(* _publish_to_website calls made so far have returned, however their      *)
(* reads, writes and renames were interleaved, discoveries.json is a whole *)
(* document that holds one entry for each call that returned success, and *)
(* the entries it held before.                                            *)
C27_NoLostUpdate ==
    WritersQuiet =>
       /\ Readable(discoveries)
       /\ \A id \in 1..MaxPubs :
             Cardinality(FeedHolds(id)) = Cardinality(CompletedFor(id))

\* a call that no other call overlaps adds its entry in front of the entries
\* the feed held when it was made (SpecFeed)
C27_AloneNoLostUpdate ==
    ws.pc = "returned" => discoveries = Dump(<<Entry(ws.pub)>> \o Load(ws.before))

----------------------------------------------------------------------------
(* The stored row against the returned decision (SpecReview).              *)

\* the row the smart_review call saved: the table is empty before the call
SavedRow == council_deliberations[Len(council_deliberations)]

\* smart_review has returned a decision
Returned == sr.pc = "done" /\ Len(council_deliberations) = 1

\* the call took the auto-approve path
ReturnedAuto == Returned /\ ~sr.screening.needs_council

(* C28: the deliberation row a deliberate or smart_review call persists    *)
(* carries the votes, the final_decision and the consensus_summary of the  *)
(* CouncilDecision the call returns, on the full-panel path and on the     *)
(* auto-approve path.                                                      *)
C28_RowEqualsDecision ==
    Returned =>
       /\ SavedRow.votes = sr.decision.votes
       /\ SavedRow.final_decision = sr.decision.final_decision
       /\ SavedRow.consensus_summary = sr.decision.consensus_summary

(* C28 as amended: the row carries the votes and the final_decision of the *)
(* returned decision on both paths; its consensus_summary is the returned  *)
(* one on the full-panel path, and the returned one behind the marker      *)
(* "[AUTO] " on the auto-approve path.                                     *)
C28_RowEqualsDecisionButMarker ==
    Returned =>
       /\ SavedRow.votes = sr.decision.votes
       /\ SavedRow.final_decision = sr.decision.final_decision
       /\ SavedRow.consensus_summary =
             IF ReturnedAuto THEN <<"[AUTO]">> \o sr.decision.consensus_summary
             ELSE sr.decision.consensus_summary
       /\ \A k \in DOMAIN agent_votes :
             /\ agent_votes[k].deliberation_id = 1
             /\ agent_votes[k].agent_role = sr.decision.votes[k].agent
             /\ agent_votes[k].approve = sr.decision.votes[k].approve

\* an auto-approved finding, saved and returned
C28_Witness ==
    /\ ReturnedAuto
    /\ Len(SavedRow.votes) = Len(Panel)
    /\ Head(SavedRow.consensus_summary) = "[AUTO]"

\* a finding the panel reviewed and rejected, saved and returned
C28_WitnessPanel ==
    /\ Returned
    /\ sr.screening.needs_council
    /\ sr.decision.final_decision = "revise"
    /\ Len(SavedRow.votes) = Len(Panel)

----------------------------------------------------------------------------
(* Properties of process_queue (Spec).                                     *)

IsDeliberation(e) == e.op = "run_deliberation"
IsDecided(e) == e.op = "run_deliberation" /\ e.kind = "ok"
IsApproved(e) == IsDecided(e) /\ e.decision = "publish"
IsRejected(e) == IsDecided(e) /\ e.decision # "publish"
IsPublished(e) == e.op = "publish" /\ e.kind = "ok"

\* an error result of run_deliberation, or an exception of either call
IsFailure(e) ==
    \/ e.op = "run_deliberation" /\ e.kind \in {"error", "exception"}
    \/ e.op = "publish" /\ e.kind = "exception"

PubsOf(events) == [i \in DOMAIN events |-> events[i].pub]

\* process_queue of w has read its pending list
QueueRead(w) == wk[w].qres # NoValue /\ wk[w].pc # "pq_select"

\* process_queue of w has returned
QueueDone(w) == QueueRead(w) /\ wk[w].pc = "idle"

QueueAccounts(w) ==
    LET t == wk[w].trace
        r == wk[w].qres
        pending == wk[w].pending
        handled == PubsOf(SelectSeq(t, IsDeliberation))
    IN  /\ \A i, j \in DOMAIN pending : i # j => pending[i] # pending[j]
        /\ \A i, j \in DOMAIN pending :
              i < j => publications[pending[i]].created_at
                          <= publications[pending[j]].created_at
        \* one run_deliberation call per pending id, in the list's order
        /\ Len(handled) <= Len(pending)
        /\ handled = SubSeq(pending, 1, Len(handled))
        /\ QueueDone(w) => handled = pending
        \* failures are recorded and the loop goes on
        /\ r.errors = PubsOf(SelectSeq(t, IsFailure))
        \* the counters
        /\ r.processed = Len(SelectSeq(t, IsDecided))
        /\ r.approved = Len(SelectSeq(t, IsApproved))
        /\ r.rejected = Len(SelectSeq(t, IsRejected))
        /\ r.published = Len(SelectSeq(t, IsPublished))
        /\ r.processed = r.approved + r.rejected
        /\ r.published <= r.approved

\* the list process_queue reads is the publications that are PENDING_REVIEW
ReadsPending(w) ==
    (wk[w].pc = "pq_select" /\ wk'[w].pc # "pq_select") =>
        {wk'[w].pending[i] : i \in DOMAIN wk'[w].pending}
           = {id \in DOMAIN publications : publications[id].status = PENDING_REVIEW}

----------------------------------------------------------------------------
(* SpecGuardian: guardian.py, calls of check_content one after another,    *)
(* through a method of one Guardian object or directly.                    *)

InitGuardian ==
    /\ StoreInit
    /\ wk = [w \in Workers |-> WorkerIdle]
    /\ calls = 0
    /\ dl = DeliberateIdle
    /\ cl = ClientIdle
    /\ sr = ReviewIdle
    /\ rn = RunIdle
    /\ ws = WriterIdle
    /\ gc = ConsensusIdle
    /\ fw = <<>>
    /\ gd = GuardianIdle

\* lines 207-233 and 155: check_post, check_reply or check_tweet of the
\* Guardian object, which leave force_ai at its default, or check_content
GdCall ==
    /\ gd.pc \in {"off", "done"}
    /\ calls < MaxCalls
    /\ calls' = calls + 1
    /\ \E content \in GuardianContents, caller \in {"Guardian", "check_content"},
          force_ai \in BOOLEAN :
          /\ caller = "Guardian" => ~force_ai
          /\ gd' = [GuardianIdle EXCEPT !.pc = "quick", !.caller = caller,
                                        !.content = content, !.force_ai = force_ai,
                                        !.checks_today = gd.checks_today,
                                        !.blocks_today = gd.blocks_today]
    /\ UNCHANGED <<store, wk, dl, cl, sr, rn, ws, gc, fw>>

(* lines 169-185: the pre-check and the two results that need no reviewer   *)
GdQuick ==
    /\ gd.pc = "quick"
    /\ LET q == quick_check(gd.content)
           checked == [gd EXCEPT !.status = q.status, !.flags = q.flags]
       IN  gd' = IF q.status = "block"
                 THEN [checked EXCEPT
                         !.pc = "return",
                         !.result = GuardianResult(PyBool(FALSE),
                                       "Content contains blocked patterns", q.flags)]
                 ELSE IF q.status = "safe" /\ ~gd.force_ai
                 THEN [checked EXCEPT
                         !.pc = "return",
                         !.result = GuardianResult(PyBool(TRUE),
                                       "Content passed quick check", q.flags)]
                 ELSE [checked EXCEPT !.pc = "ai"]
    /\ UNCHANGED <<store, wk, calls, dl, cl, sr, rn, ws, gc, fw>>

\* line 116: call_kimi(prompt, max_tokens=500) and what it gives
GdAsk ==
    /\ gd.pc = "ai"
    /\ \E answer \in GuardianAnswers :
          gd' = [gd EXCEPT !.pc = "review", !.answer = answer, !.ai_calls = @ + 1]
    /\ UNCHANGED <<store, wk, calls, dl, cl, sr, rn, ws, gc, fw>>

\* lines 118-152 and 189-198: the review made into check_content's result
GdReview ==
    /\ gd.pc = "review"
    /\ gd' = [gd EXCEPT !.pc = "return",
                        !.result = Reviewed(gd.flags, ai_review(gd.answer))]
    /\ UNCHANGED <<store, wk, calls, dl, cl, sr, rn, ws, gc, fw>>

(* lines 211-214, 222-225, 230-233: the Guardian method counts the check    *)
(* and, if not result.approved, the block; an exception of check_content    *)
(* leaves the method before it counts                                       *)
GdReturn ==
    /\ gd.pc = "return"
    /\ gd' = IF gd.caller = "Guardian" /\ ~gd.result.raised
             THEN [gd EXCEPT !.pc = "done", !.checks_today = @ + 1,
                             !.blocks_today = IF TreatedAsApproved(gd.result)
                                              THEN @ ELSE @ + 1]
             ELSE [gd EXCEPT !.pc = "done"]
    /\ UNCHANGED <<store, wk, calls, dl, cl, sr, rn, ws, gc, fw>>

NextGuardian == GdCall \/ GdQuick \/ GdAsk \/ GdReview \/ GdReturn

SpecGuardian == InitGuardian /\ [][NextGuardian]_vars

----------------------------------------------------------------------------
(* Properties of the Guardian (SpecGuardian).                              *)

\* check_content has its result
GuardianAnswered == gd.pc \in {"return", "done"}

\* the reviewer was asked and its response holds a JSON object
ReviewObject ==
    /\ gd.ai_calls > 0
    /\ gd.answer.kind = "content"
    /\ ~gd.answer.text.none
    /\ gd.answer.text.open >= 0
    /\ gd.answer.text.close + 1 > gd.answer.text.open
    /\ gd.answer.text.body.valid

\* the response contains approved equal to the boolean true
ReviewApproves == ReviewObject /\ gd.answer.text.body.approved = PyBool(TRUE)

(* C30: check_content gives a result its callers treat as approved only    *)
(* when the pre-check says 'safe' and the AI review is not forced, or when  *)
(* the AI review response contains approved equal to the boolean true;      *)
(* content matching a blocked pattern is rejected without any AI call; an   *)
(* AI error, an unparseable response, or a missing or non-boolean approved  *)
(* value is never treated as approved.                                      *)
C30_GuardianApproves ==
    GuardianAnswered =>
        /\ TreatedAsApproved(gd.result) =>
              \/ gd.status = "safe" /\ ~gd.force_ai
              \/ ReviewApproves
        /\ gd.content.blocked # {} =>
              /\ ~TreatedAsApproved(gd.result)
              /\ gd.ai_calls = 0
        /\ gd.ai_calls > 0 /\ (~ReviewObject
                               \/ gd.answer.text.body.approved.type # "bool") =>
              ~TreatedAsApproved(gd.result)

(* C30, what the code keeps of it: as above, but a reviewer's approved of   *)
(* any JSON type counts as its Python truth value.                          *)
C30_GuardianApprovesTruthy ==
    GuardianAnswered =>
        /\ TreatedAsApproved(gd.result) =>
              \/ gd.status = "safe" /\ ~gd.force_ai
              \/ ReviewObject /\ gd.answer.text.body.approved.b
        /\ gd.content.blocked # {} =>
              /\ ~TreatedAsApproved(gd.result)
              /\ gd.ai_calls = 0
        /\ gd.ai_calls > 0 /\ ~ReviewObject => ~TreatedAsApproved(gd.result)

\* a reviewer's answer "approved": "..." (a string) counted as an approval
\* by the Guardian object
C30_StringApproved ==
    /\ gd.pc = "done"
    /\ gd.caller = "Guardian"
    /\ ReviewObject
    /\ gd.answer.text.body.approved.type = "string"
    /\ TreatedAsApproved(gd.result)
    /\ gd.blocks_today = 0
    /\ gd.checks_today = 1

============================================================================
